---- MODULE Spec2Model ----
(***************************************************************************)
(* Query planner core of graphql-hive/query-planner-js.                    *)
(*                                                                         *)
(* The module follows the data flow of the planner:                        *)
(*   Supergraph (per-subgraph type tables)                                 *)
(*     -> parseSupergraph (query graph construction, parse.ts / graph.ts)  *)
(*     -> walkQuery (path finding, walker.ts)                              *)
(* Objects of the program are records; arrays are sequences.  JavaScript   *)
(* indexes from 0 and TLA+ from 1: a Node keeps the 0-based `index` of the *)
(* source and the index tables are read at index + 1.                      *)
(***************************************************************************)
EXTENDS Integers, Sequences, FiniteSets, TLC

(***************************************************************************)
(* Generic array helpers.                                                  *)
(***************************************************************************)
Range(s) == {s[i] : i \in 1..Len(s)}

Includes(s, x) == \E i \in 1..Len(s) : s[i] = x

Last(s) == s[Len(s)]

RECURSIVE Flatten(_)
Flatten(ss) == IF ss = <<>> THEN <<>> ELSE Head(ss) \o Flatten(Tail(ss))

RECURSIVE Reverse(_)
Reverse(s) == IF s = <<>> THEN <<>> ELSE Reverse(Tail(s)) \o <<Head(s)>>

(***************************************************************************)
(* schema.ts: TypeKind, ObjectType, ObjectTypeField; join-directives.ts:   *)
(* JoinType, JoinField (the arguments the planner reads).                  *)
(***************************************************************************)
OBJECT_TYPE == "OBJECT_TYPE"
SCALAR_TYPE == "SCALAR_TYPE"

specifiedScalarTypes == {"String", "Int", "Float", "Boolean", "ID"}

\* new JoinType(graph, key, extension, resolvable, isInterfaceObject);
\* a null key is hasKey = FALSE.
JoinType(graph, hasKey, key, resolvable) ==
  [graph |-> graph, hasKey |-> hasKey, key |-> key, resolvable |-> resolvable]

\* new ObjectTypeField(name, type, isList, join), join.external kept.
ObjectTypeField(name, type, isList, external) ==
  [name |-> name, type |-> type, isList |-> isList, join |-> [external |-> external]]

\* new ObjectType(name, join) followed by addField for every field.
ObjectType(name, join, fields) == [name |-> name, join |-> join, fields |-> fields]

(***************************************************************************)
(* parseFields (subgraph/helpers, a GraphQL library call): the parsed      *)
(* selection set of a key string, given as a table over the key strings    *)
(* that occur in the schemas below.                                        *)
(***************************************************************************)
FieldNode(name) ==
  [kind |-> "Field", name |-> name, hasSelectionSet |-> FALSE, selections |-> <<>>]

FieldNodeWith(name, selections) ==
  [kind |-> "Field", name |-> name, hasSelectionSet |-> TRUE, selections |-> selections]

\* Kind.INLINE_FRAGMENT and Kind.FRAGMENT_SPREAD selections
InlineFragmentNode(selections) ==
  [kind |-> "InlineFragment", name |-> "", hasSelectionSet |-> TRUE,
   selections |-> selections]

FragmentSpreadNode(name) ==
  [kind |-> "FragmentSpread", name |-> name, hasSelectionSet |-> FALSE,
   selections |-> <<>>]

parseFields(keyFields) ==
  CASE keyFields = "id" -> <<FieldNode("id")>>
    [] keyFields = "age" -> <<FieldNode("age")>>
    [] keyFields = "id age" -> <<FieldNode("id"), FieldNode("age")>>
    [] keyFields = "age id" -> <<FieldNode("age"), FieldNode("id")>>
    [] keyFields = "age boss{id}" ->
         <<FieldNode("age"), FieldNodeWith("boss", <<FieldNode("id")>>)>>
    [] keyFields = "boss{id} age" ->
         <<FieldNodeWith("boss", <<FieldNode("id")>>), FieldNode("age")>>
    [] keyFields = "boss{id age}" ->
         <<FieldNodeWith("boss", <<FieldNode("id"), FieldNode("age")>>)>>
    [] keyFields = "boss{age id}" ->
         <<FieldNodeWith("boss", <<FieldNode("age"), FieldNode("id")>>)>>
    [] keyFields = "boss{id} boss{age}" ->
         <<FieldNodeWith("boss", <<FieldNode("id")>>),
           FieldNodeWith("boss", <<FieldNode("age")>>)>>
    [] keyFields = "boss{age} boss{id}" ->
         <<FieldNodeWith("boss", <<FieldNode("age")>>),
           FieldNodeWith("boss", <<FieldNode("id")>>)>>
    [] keyFields = "...on User{id}" -> <<InlineFragmentNode(<<FieldNode("id")>>)>>
    [] keyFields = "id ...F" -> <<FieldNode("id"), FragmentSpreadNode("F")>>
    [] keyFields = "boss{...on User{id}}" ->
         <<FieldNodeWith("boss", <<InlineFragmentNode(<<FieldNode("id")>>)>>)>>
    [] keyFields = "id boss{id ...F}" ->
         <<FieldNode("id"),
           FieldNodeWith("boss", <<FieldNode("id"), FragmentSpreadNode("F")>>)>>
    [] OTHER -> <<>>

(***************************************************************************)
(* String order used by localeCompare in SelectionResolver.sort: the names *)
(* of the model in alphabetical order.                                     *)
(***************************************************************************)
NameOrder == <<"age", "boss", "friend", "id", "users">>

NameRank(n) == CHOOSE i \in 1..Len(NameOrder) : NameOrder[i] = n

(***************************************************************************)
(* graph.ts: Selection and its nodes.  selectionSet: null of the source is *)
(* isLeaf = TRUE (the array is then empty and unused).                     *)
(***************************************************************************)
Field(typeName, fieldName, isLeaf, selectionSet) ==
  [kind |-> "field", typeName |-> typeName, fieldName |-> fieldName,
   isLeaf |-> isLeaf, selectionSet |-> selectionSet]

Selection(typeName, keyFieldsString, selectionSet) ==
  [isNull |-> FALSE, typeName |-> typeName, keyFieldsString |-> keyFieldsString,
   selectionSet |-> selectionSet]

\* requirement: null
NullSelection == [isNull |-> TRUE]

\* Selection._selectionSetEqual
RECURSIVE selectionSetEqual(_, _)
selectionSetEqual(selectionSet, otherSelectionSet) ==
  /\ Len(selectionSet) = Len(otherSelectionSet)
  /\ \A i \in 1..Len(selectionSet) :
       LET selectionNode == selectionSet[i]
           otherSelectionNode == otherSelectionSet[i]
       IN /\ selectionNode.kind = otherSelectionNode.kind
          /\ selectionNode.typeName = otherSelectionNode.typeName
          /\ selectionNode.fieldName = otherSelectionNode.fieldName
          /\ IF ~selectionNode.isLeaf /\ ~otherSelectionNode.isLeaf
               THEN selectionSetEqual(selectionNode.selectionSet,
                                      otherSelectionNode.selectionSet)
               ELSE selectionNode.isLeaf = otherSelectionNode.isLeaf

\* Selection.equals
SelectionEquals(this, other) ==
  IF this.typeName # other.typeName THEN FALSE
  ELSE IF this.keyFieldsString = other.keyFieldsString THEN TRUE
  ELSE selectionSetEqual(this.selectionSet, other.selectionSet)

(***************************************************************************)
(* selection-resolver.ts                                                   *)
(***************************************************************************)
\* the comparator of SelectionResolver.sort on two fields:
\* `${typeName}.${fieldName}`.localeCompare(...) <= 0.  The nodes of one
\* selection set share their typeName, so the field names decide.
FieldLeq(a, b) == NameRank(a.fieldName) <= NameRank(b.fieldName)

\* Array.prototype.sort with that comparator (stable): insertion of x
\* after the last element that is <= x.
RECURSIVE InsertSorted(_, _)
InsertSorted(sorted, x) ==
  IF sorted = <<>> THEN <<x>>
  ELSE IF FieldLeq(Last(sorted), x) THEN Append(sorted, x)
  ELSE Append(InsertSorted(SubSeq(sorted, 1, Len(sorted) - 1), x), Last(sorted))

RECURSIVE sort(_)
sort(selectionSet) ==
  IF selectionSet = <<>> THEN <<>>
  ELSE InsertSorted(sort(SubSeq(selectionSet, 1, Len(selectionSet) - 1)),
                    Last(selectionSet))

\* the declared type of a field of typeName in the subgraph
\* (typeState.fields.find(...).type)
TypeState(subgraph, typeName) ==
  LET i == CHOOSE i \in 1..Len(subgraph.types) : subgraph.types[i].name = typeName
  IN subgraph.types[i]

FieldTypeOf(subgraph, typeName, fieldName) ==
  LET fields == TypeState(subgraph, typeName).fields
      i == CHOOSE i \in 1..Len(fields) : fields[i].name = fieldName
  IN fields[i].type

\* SelectionResolver.resolveSelectionSetNode with resolveFieldNode inlined
\* per selection; __typename is skipped.
RECURSIVE resolveSelectionSetNode(_, _, _)
RECURSIVE resolveSelections(_, _, _, _, _)
resolveSelections(subgraph, typeName, selections, i, selectionSet) ==
  IF i > Len(selections) THEN selectionSet
  ELSE LET fieldNode == selections[i]
           pushed ==
             IF fieldNode.name = "__typename" THEN selectionSet
             ELSE IF fieldNode.hasSelectionSet
               THEN Append(selectionSet,
                      Field(typeName, fieldNode.name, FALSE,
                            resolveSelectionSetNode(subgraph,
                              FieldTypeOf(subgraph, typeName, fieldNode.name),
                              fieldNode.selections)))
               ELSE Append(selectionSet, Field(typeName, fieldNode.name, TRUE, <<>>))
       IN resolveSelections(subgraph, typeName, selections, i + 1, pushed)

resolveSelectionSetNode(subgraph, typeName, selections) ==
  sort(resolveSelections(subgraph, typeName, selections, 1, <<>>))

\* SelectionResolver.resolve (the memo returns the same value again)
resolve(subgraph, typeName, keyFields) ==
  Selection(typeName, keyFields,
            resolveSelectionSetNode(subgraph, typeName, parseFields(keyFields)))

(***************************************************************************)
(* graph.ts: Node, moves, Edge, Graph                                      *)
(***************************************************************************)
Node(index, subgraphId, typeName, typeKind) ==
  [index |-> index, subgraphId |-> subgraphId, typeName |-> typeName,
   typeKind |-> typeKind]

\* new FieldMove(field.name, head.typeName, head.typeKind, field.isList)
FieldMove(fieldName, typeName, typeKind, isList) ==
  [kind |-> "FieldMove", fieldName |-> fieldName, typeName |-> typeName,
   typeKind |-> typeKind, isList |-> isList]

EntityMove == [kind |-> "EntityMove"]

\* Edges are compared by reference in the source (e === edge).  Two edges
\* of one graph never agree on head, tail, move and requirement (a type
\* declares a field once and a key string once per subgraph), so equality
\* of the records is identity of the objects.
Edge(head, tail, move, requirement) ==
  [head |-> head, tail |-> tail, move |-> move, requirement |-> requirement]

\* new Graph(id)
NewGraph(id) ==
  [id |-> id, nodesByTypeIndex |-> <<>>, edgesByHeadTypeIndex |-> <<>>,
   edgesByTailTypeIndex |-> <<>>, typeNameToNodeIndexes |-> <<>>]

\* typeNameToNodeIndexes is a Map: a sequence of [typeName, indexes]
\* entries in insertion order.
HasType(graph, typeName) ==
  \E i \in 1..Len(graph.typeNameToNodeIndexes) :
     graph.typeNameToNodeIndexes[i].typeName = typeName

\* Graph.getIndexesOfType (called only when HasType)
getIndexesOfType(graph, typeName) ==
  LET i == CHOOSE i \in 1..Len(graph.typeNameToNodeIndexes) :
             graph.typeNameToNodeIndexes[i].typeName = typeName
  IN graph.typeNameToNodeIndexes[i].indexes

\* the Map update of createNode / addNode
PutIndex(map, typeName, index) ==
  IF \E i \in 1..Len(map) : map[i].typeName = typeName
    THEN [i \in 1..Len(map) |->
            IF map[i].typeName = typeName
              THEN [map[i] EXCEPT !.indexes = Append(@, index)]
              ELSE map[i]]
    ELSE Append(map, [typeName |-> typeName, indexes |-> <<index>>])

\* Graph.createNode (through createTypeNode) and Graph.addNode: the node
\* takes the next index and gets empty edge lists.
addNode(graph, subgraphId, typeName, typeKind) ==
  LET index == Len(graph.nodesByTypeIndex)
      node == Node(index, subgraphId, typeName, typeKind)
  IN [graph EXCEPT
        !.nodesByTypeIndex = Append(@, <<node>>),
        !.edgesByHeadTypeIndex = Append(@, <<>>),
        !.edgesByTailTypeIndex = Append(@, <<>>),
        !.typeNameToNodeIndexes = PutIndex(@, typeName, index)]

\* Graph.addEdge
addEdge(graph, edge) ==
  [graph EXCEPT
     !.edgesByHeadTypeIndex[edge.head.index + 1] = Append(@, edge),
     !.edgesByTailTypeIndex[edge.tail.index + 1] = Append(@, edge)]

\* Graph.ensureNonOrSingleNode / Graph.nodeOf on a graph that has the type
nodeOf(graph, typeName) ==
  graph.nodesByTypeIndex[getIndexesOfType(graph, typeName)[1] + 1][1]

\* Graph.nodesOf(typeName): every node of the type, in index order of
\* insertion.  The source throws when the type has no node; NodesOfThrows
\* is that case.
NodesOfThrows(graph, typeName) == ~HasType(graph, typeName)

nodesOf(graph, typeName) ==
  IF ~HasType(graph, typeName) THEN <<>>
  ELSE LET indexes == getIndexesOfType(graph, typeName)
       IN Flatten([k \in 1..Len(indexes) |-> graph.nodesByTypeIndex[indexes[k] + 1]])

\* Graph.edgesOfHead
edgesOfHead(graph, head) == graph.edgesByHeadTypeIndex[head.index + 1]

(***************************************************************************)
(* parse.ts: a Supergraph is a sequence of Subgraphs                       *)
(* [graphId, types] in the insertion order of the source's Maps; types is  *)
(* the sequence of the subgraph's ObjectTypes.                             *)
(***************************************************************************)
IsEntityJoin(joinType) == joinType.resolvable /\ joinType.hasKey

\* Subgraph.entityTypes as parseSupergraph fills it (lines 32-38)
entityTypes(subgraph) ==
  LET isEntity(t) == \E j \in 1..Len(t.join) : IsEntityJoin(t.join[j])
  IN SelectSeq([i \in 1..Len(subgraph.types) |-> subgraph.types[i]], isEntity)

HasTypeState(subgraph, typeName) ==
  \E i \in 1..Len(subgraph.types) : subgraph.types[i].name = typeName

\* createNodesAndEdgesForObjectType, createNodesAndEdgesForType,
\* createEdgeForObjectTypeField and createNodeForScalarType.  The source
\* returns the node and mutates the graph; here the graph is returned and
\* the node is read back with nodeOf.
RECURSIVE createNodesAndEdgesForObjectType(_, _, _)
RECURSIVE createEdgesForFields(_, _, _, _, _)

createNodeForScalarType(graph, subgraph, typeName) ==
  IF HasType(graph, typeName) THEN graph
  ELSE addNode(graph, graph.id, typeName, SCALAR_TYPE)

createNodesAndEdgesForType(graph, subgraph, typeName) ==
  IF typeName \in specifiedScalarTypes
    THEN createNodeForScalarType(graph, subgraph, typeName)
    ELSE createNodesAndEdgesForObjectType(graph, subgraph, TypeState(subgraph, typeName))

createEdgeForObjectTypeField(graph, subgraph, headTypeName, field) ==
  LET g == createNodesAndEdgesForType(graph, subgraph, field.type)
      head == nodeOf(g, headTypeName)
      tail == nodeOf(g, field.type)
  IN addEdge(g, Edge(head, tail,
                     FieldMove(field.name, head.typeName, head.typeKind, field.isList),
                     NullSelection))

\* the loop over objectType.fields, had it not skipped external fields
RECURSIVE createEdgesForFieldsWithExternal(_, _, _, _, _)
createEdgesForFieldsWithExternal(graph, subgraph, headTypeName, fields, i) ==
  IF i > Len(fields) THEN graph
  ELSE createEdgesForFieldsWithExternal(
         createEdgeForObjectTypeField(graph, subgraph, headTypeName, fields[i]),
         subgraph, headTypeName, fields, i + 1)

\* the loop over objectType.fields, from field i on
createEdgesForFields(graph, subgraph, headTypeName, fields, i) ==
  IF i > Len(fields) THEN graph
  ELSE IF fields[i].join.external
    THEN createEdgesForFields(graph, subgraph, headTypeName, fields, i + 1)
    ELSE createEdgesForFields(
           createEdgeForObjectTypeField(graph, subgraph, headTypeName, fields[i]),
           subgraph, headTypeName, fields, i + 1)

createNodesAndEdgesForObjectType(graph, subgraph, objectType) ==
  IF HasType(graph, objectType.name) THEN graph
  ELSE createEdgesForFields(addNode(graph, graph.id, objectType.name, OBJECT_TYPE),
                            subgraph, objectType.name, objectType.fields, 1)

\* the forEach over subgraph.entityTypes
RECURSIVE addEntityTypes(_, _, _, _)
addEntityTypes(graph, subgraph, types, i) ==
  IF i > Len(types) THEN graph
  ELSE addEntityTypes(createNodesAndEdgesForObjectType(graph, subgraph, types[i]),
                      subgraph, types, i + 1)

buildGraphFromSubgraph(subgraph) ==
  LET graph == NewGraph(subgraph.graphId)
      fromRoot == IF HasTypeState(subgraph, "Query")
                    THEN createNodesAndEdgesForObjectType(graph, subgraph,
                                                          TypeState(subgraph, "Query"))
                    ELSE graph
  IN addEntityTypes(fromRoot, subgraph, entityTypes(subgraph), 1)

\* Graph.copyFrom: addNode gives every node of the copied graph the next
\* index of this graph (and writes it into the node object, which the
\* edges share), then every edge is added, head by head.
Reindex(node, offset) == [node EXCEPT !.index = @ + offset]

RECURSIVE addEdges(_, _, _)
addEdges(graph, edges, i) ==
  IF i > Len(edges) THEN graph ELSE addEdges(addEdge(graph, edges[i]), edges, i + 1)

RECURSIVE addNodes(_, _, _)
addNodes(graph, nodes, i) ==
  IF i > Len(nodes) THEN graph
  ELSE addNodes(addNode(graph, nodes[i].subgraphId, nodes[i].typeName, nodes[i].typeKind),
                nodes, i + 1)

copyFrom(this, graph) ==
  LET offset == Len(this.nodesByTypeIndex)
      nodes == Flatten(graph.nodesByTypeIndex)
      edges == Flatten(graph.edgesByHeadTypeIndex)
      moved == [i \in 1..Len(edges) |->
                  [edges[i] EXCEPT !.head = Reindex(@, offset),
                                   !.tail = Reindex(@, offset)]]
  IN addEdges(addNodes(this, nodes, 1), moved, 1)

\* the `entities` table of parseSupergraph (lines 59-74): for a type name,
\* the {key, graphId} entries in subgraph order, then join order
EntitiesOfSubgraph(subgraph, typeName) ==
  IF ~HasTypeState(subgraph, typeName) THEN <<>>
  ELSE LET join == TypeState(subgraph, typeName).join
           keyed == SelectSeq(join, IsEntityJoin)
       IN [j \in 1..Len(keyed) |->
             [key |-> keyed[j].key, graphId |-> subgraph.graphId, typeName |-> typeName]]

entitiesOf(supergraph, typeName) ==
  Flatten([s \in 1..Len(supergraph) |-> EntitiesOfSubgraph(supergraph[s], typeName)])

EntitiesHas(supergraph, typeName) ==
  \E s \in 1..Len(supergraph) : HasTypeState(supergraph[s], typeName)

SubgraphOf(supergraph, graphId) ==
  supergraph[CHOOSE s \in 1..Len(supergraph) : supergraph[s].graphId = graphId]

\* connectEntities, had it not skipped the node's own index
connectEntitiesWithSelf(graph, supergraph, nodeIndex, sameTypeNameNodeIndexes, entitiesOfType) ==
  LET headNode == graph.nodesByTypeIndex[nodeIndex + 1][1]
      forTail(otherNodeIndex) ==
        LET tailNode == graph.nodesByTypeIndex[otherNodeIndex + 1][1]
            ofTail(t) == t.graphId = tailNode.subgraphId
            keys == SelectSeq(entitiesOfType, ofTail)
        IN [k \in 1..Len(keys) |->
              Edge(headNode, tailNode, EntityMove,
                   resolve(SubgraphOf(supergraph, tailNode.subgraphId),
                           headNode.typeName, keys[k].key))]
  IN Flatten([k \in 1..Len(sameTypeNameNodeIndexes) |->
                forTail(sameTypeNameNodeIndexes[k])])

\* Graph.connectEntities for the node at nodeIndex: the entity edges pushed
\* onto edgesToAdd, in push order
connectEntities(graph, supergraph, nodeIndex, sameTypeNameNodeIndexes, entitiesOfType) ==
  LET headNode == graph.nodesByTypeIndex[nodeIndex + 1][1]
      forTail(otherNodeIndex) ==
        IF nodeIndex = otherNodeIndex THEN <<>>
        ELSE LET tailNode == graph.nodesByTypeIndex[otherNodeIndex + 1][1]
                 ofTail(t) == t.graphId = tailNode.subgraphId
                 keys == SelectSeq(entitiesOfType, ofTail)
             IN [k \in 1..Len(keys) |->
                   Edge(headNode, tailNode, EntityMove,
                        resolve(SubgraphOf(supergraph, tailNode.subgraphId),
                                headNode.typeName, keys[k].key))]
  IN Flatten([k \in 1..Len(sameTypeNameNodeIndexes) |->
                forTail(sameTypeNameNodeIndexes[k])])

\* Graph.joinByKeys: edgesToAdd over all nodes in index order, then the
\* edges are popped, so they are added last pushed first.
joinByKeys(graph, supergraph) ==
  LET forNode(i) ==
        LET typeNode == graph.nodesByTypeIndex[i + 1][1]
        IN IF ~EntitiesHas(supergraph, typeNode.typeName) THEN <<>>
           ELSE IF typeNode.typeKind # OBJECT_TYPE THEN <<>>
           ELSE connectEntities(graph, supergraph, i,
                                getIndexesOfType(graph, typeNode.typeName),
                                entitiesOf(supergraph, typeNode.typeName))
      edgesToAdd == Flatten([k \in 1..Len(graph.nodesByTypeIndex) |-> forNode(k - 1)])
  IN addEdges(graph, Reverse(edgesToAdd), 1)

RECURSIVE copyGraphs(_, _, _)
copyGraphs(mergedGraph, supergraph, i) ==
  IF i > Len(supergraph) THEN mergedGraph
  ELSE copyGraphs(copyFrom(mergedGraph, buildGraphFromSubgraph(supergraph[i])),
                  supergraph, i + 1)

\* parseSupergraph from the parsed type tables on (lines 44-85)
parseSupergraph(supergraph) ==
  joinByKeys(copyGraphs(NewGraph("private"), supergraph, 1), supergraph)

(***************************************************************************)
(* walker.ts: OperationPath                                                *)
(***************************************************************************)
\* new OperationPath(rootNode, edges, requiredPathsForEdges, cost)
OperationPath(rootNode, edges, requiredPathsForEdges, cost) ==
  [rootNode |-> rootNode, edges |-> edges,
   requiredPathsForEdges |-> requiredPathsForEdges, cost |-> cost]

\* calculateCost
calculateCost(edge) == IF edge.move.kind = "FieldMove" THEN 1 ELSE 10

\* OperationPath.tail
tail(this) == IF Len(this.edges) > 0 THEN Last(this.edges).tail ELSE this.rootNode

\* OperationPath.advance
advance(this, edge) ==
  OperationPath(this.rootNode,
                Append(this.edges, edge),
                Append(this.requiredPathsForEdges, <<>>),
                this.cost + calculateCost(edge))

\* clone, had it passed the edges alone to the constructor
cloneWithoutRequiredPaths(this) ==
  OperationPath(this.rootNode, this.edges, <<>>, 0)

\* OperationPath.clone: the constructor's default cost, 0, is taken
clone(this) ==
  OperationPath(this.rootNode, this.edges, this.requiredPathsForEdges, 0)

RECURSIVE SumCost(_)
SumCost(paths) == IF paths = <<>> THEN 0 ELSE Head(paths).cost + SumCost(Tail(paths))

\* OperationPath.addRequiredPaths throws when the lengths differ, and on a
\* path without edges, where requiredPathsForEdges[-1] is undefined.
addRequiredPathsThrows(this) ==
  \/ Len(this.edges) # Len(this.requiredPathsForEdges)
  \/ Len(this.requiredPathsForEdges) = 0

\* addRequiredPaths, had it not added the cost of the required paths
addRequiredPathsWithoutCost(this, paths) ==
  [this EXCEPT
     !.requiredPathsForEdges[Len(this.requiredPathsForEdges)] = @ \o paths]

\* OperationPath.addRequiredPaths when it does not throw
addRequiredPaths(this, paths) ==
  [this EXCEPT
     !.requiredPathsForEdges[Len(this.requiredPathsForEdges)] = @ \o paths,
     !.cost = @ + SumCost(paths)]

(***************************************************************************)
(* walker.ts: the search                                                   *)
(***************************************************************************)
\* concatIfNotExistsString
concatIfNotExistsString(list, item) ==
  IF Includes(list, item) THEN list ELSE Append(list, item)

\* concatIfNotExistsFields
concatIfNotExistsFields(list, item) ==
  IF \E i \in 1..Len(list) : SelectionEquals(list[i], item) THEN list
  ELSE Append(list, item)

Excluded(graphIds, requirements, edges) ==
  [graphIds |-> graphIds, requirements |-> requirements, edges |-> edges]

\* the default value of the `excluded` parameter
NoExcluded == Excluded(<<>>, <<>>, <<>>)

\* findBestPathsPerSubgraph: a Map from the subgraph a path ends in to the
\* path kept for it; Map.set on an existing key keeps the key's position.
RECURSIVE findBestPathsPerSubgraphFrom(_, _, _)
findBestPathsPerSubgraphFrom(paths, i, pathsPerGraph) ==
  IF i > Len(paths) THEN pathsPerGraph
  ELSE LET path == paths[i]
           endedInGraphId == tail(path).subgraphId
           at == {k \in 1..Len(pathsPerGraph) :
                    tail(pathsPerGraph[k]).subgraphId = endedInGraphId}
           next ==
             IF at = {} THEN Append(pathsPerGraph, path)
             ELSE LET k == CHOOSE k \in at : TRUE
                  IN IF path.cost < pathsPerGraph[k].cost
                       THEN [pathsPerGraph EXCEPT ![k] = path]
                       ELSE pathsPerGraph
       IN findBestPathsPerSubgraphFrom(paths, i + 1, next)

\* findBestPathsPerSubgraph, had it compared with <= : the last of the
\* cheapest paths of a subgraph is kept
RECURSIVE findBestPathsPerSubgraphFromLast(_, _, _)
findBestPathsPerSubgraphFromLast(paths, i, pathsPerGraph) ==
  IF i > Len(paths) THEN pathsPerGraph
  ELSE LET at == {k \in 1..Len(pathsPerGraph) :
                    tail(pathsPerGraph[k]).subgraphId = tail(paths[i]).subgraphId}
       IN findBestPathsPerSubgraphFromLast(paths, i + 1,
            IF at = {} THEN Append(pathsPerGraph, paths[i])
            ELSE IF paths[i].cost <= pathsPerGraph[CHOOSE k \in at : TRUE].cost
              THEN [pathsPerGraph EXCEPT ![CHOOSE k \in at : TRUE] = paths[i]]
              ELSE pathsPerGraph)

findBestPathsPerSubgraphLast(paths) ==
  findBestPathsPerSubgraphFromLast(paths, 1, <<>>)

findBestPathsPerSubgraph(paths) == findBestPathsPerSubgraphFrom(paths, 1, <<>>)

\* findBestPath, had it compared with <= : the last of the cheapest paths
\* is kept
RECURSIVE findBestPathFromLast(_, _, _)
findBestPathFromLast(paths, i, bestPath) ==
  IF i > Len(paths) THEN bestPath
  ELSE findBestPathFromLast(paths, i + 1,
         IF paths[i].cost <= bestPath.cost THEN paths[i] ELSE bestPath)

\* findBestPath: the loop over paths; the invariant(bestPath) that follows
\* it throws when paths is empty (findBestPathThrows).
RECURSIVE findBestPathFrom(_, _, _)
findBestPathFrom(paths, i, bestPath) ==
  IF i > Len(paths) THEN bestPath
  ELSE findBestPathFrom(paths, i + 1,
         IF paths[i].cost < bestPath.cost THEN paths[i] ELSE bestPath)

findBestPathThrows(paths) == Len(paths) = 0

findBestPath(paths) == findBestPathFrom(paths, 2, paths[1])

\* findDirectPaths, had it not compared the field name with the step
directEdgeMatchesAnyField(path, edge, name) ==
  /\ edge.move.kind = "FieldMove"
  /\ ~Includes(path.edges, edge)

\* findDirectPaths, had it not skipped the edges already on the path
directEdgeMatchesRevisiting(path, edge, name) ==
  /\ edge.move.kind = "FieldMove"
  /\ edge.move.fieldName = name

\* findDirectPaths, lines 143-153: the edge is a candidate for the step
directEdgeMatches(path, edge, name) ==
  /\ edge.move.kind = "FieldMove"
  /\ edge.move.fieldName = name
  /\ ~Includes(path.edges, edge)

\* findIndirectPaths, had it not skipped the edges back to the subgraph
\* the search started in
indirectEdgeIgnoredAllowingReturn(edge, visitedGraphs, sourceGraphId, visitedKeyFields) ==
  \/ Includes(visitedGraphs, edge.tail.subgraphId)
  \/ edge.move.kind # "EntityMove"
  \/ /\ ~edge.requirement.isNull
     /\ \E i \in 1..Len(visitedKeyFields) :
          SelectionEquals(visitedKeyFields[i], edge.requirement)

\* findIndirectPaths, lines 207-243: the edge is ignored
indirectEdgeIgnored(edge, visitedGraphs, sourceGraphId, visitedKeyFields) ==
  \/ Includes(visitedGraphs, edge.tail.subgraphId)
  \/ edge.tail.subgraphId = sourceGraphId
  \/ edge.move.kind # "EntityMove"
  \/ /\ ~edge.requirement.isNull
     /\ \E i \in 1..Len(visitedKeyFields) :
          SelectionEquals(visitedKeyFields[i], edge.requirement)

RECURSIVE findDirectPaths(_, _, _, _)
RECURSIVE findIndirectPaths(_, _, _, _)
RECURSIVE indirectQueue(_, _, _, _)
RECURSIVE indirectEdges(_, _, _, _, _, _, _)
RECURSIVE canSatisfyEdge(_, _, _, _)
RECURSIVE requirementsLoop(_, _, _, _)
RECURSIVE validateFieldRequirement(_, _, _)

\* findDirectPaths, lines 166-172: the path advanced with an edge whose
\* requirement canSatisfyEdge has looked at (result)
directAdvance(path, edge, result) ==
  IF result.success
    THEN <<addRequiredPaths(advance(path, edge), result.paths)>>
    ELSE <<>>

findDirectPaths(graph, path, name, excluded) ==
  LET edges == edgesOfHead(graph, tail(path))
  IN Flatten([i \in 1..Len(edges) |->
       IF ~directEdgeMatches(path, edges[i], name) THEN <<>>
       ELSE directAdvance(path, edges[i],
              canSatisfyEdge(graph, edges[i], path,
                Excluded(concatIfNotExistsString(excluded.graphIds,
                                                 edges[i].tail.subgraphId),
                         excluded.requirements, <<>>)))])

\* findIndirectPaths, lines 259-282: the direct paths found from newPath
\* go to nextPaths; with none, newPath is pushed on the queue.  st holds
\* the queue and nextPaths.
indirectFound(item, edge, st, newPath, directPaths) ==
  IF Len(directPaths) > 0
    THEN [st EXCEPT !.nextPaths = @ \o directPaths]
    ELSE [st EXCEPT !.queue = Append(@,
            [visitedGraphs |->
               concatIfNotExistsString(item.visitedGraphs, edge.tail.subgraphId),
             visitedKeyFields |->
               IF ~edge.requirement.isNull
                 THEN concatIfNotExistsFields(item.visitedKeyFields,
                                              edge.requirement)
                 ELSE item.visitedKeyFields,
             path |-> newPath])]

\* findIndirectPaths, lines 251-259: the edge's requirement has been
\* looked at (result)
indirectAdvance(graph, name, item, edge, st, result, newPath) ==
  IF ~result.success THEN st
  ELSE indirectFound(item, edge, st, newPath,
         findDirectPaths(graph, newPath, name,
                         Excluded(item.visitedGraphs, item.visitedKeyFields, <<>>)))

\* findIndirectPaths, lines 206-283: the body of the for loop over the
\* edges of one queue item
indirectEdge(graph, name, sourceGraphId, item, edge, st, result) ==
  IF indirectEdgeIgnored(edge, item.visitedGraphs, sourceGraphId,
                         item.visitedKeyFields)
    THEN st
    ELSE indirectAdvance(graph, name, item, edge, st, result,
                         addRequiredPaths(advance(item.path, edge), result.paths))

\* the for loop over the edges of one queue item, had canSatisfyEdge been
\* told to keep off the requirement of the edge and not off its tail
\* subgraph
RECURSIVE indirectEdgesExcludingKey(_, _, _, _, _, _, _)
indirectEdgesExcludingKey(graph, name, sourceGraphId, item, edges, i, st) ==
  IF i > Len(edges) THEN st
  ELSE indirectEdgesExcludingKey(graph, name, sourceGraphId, item, edges, i + 1,
         indirectEdge(graph, name, sourceGraphId, item, edges[i], st,
           canSatisfyEdge(graph, edges[i], item.path,
             Excluded(item.visitedGraphs,
                      IF edges[i].requirement.isNull THEN item.visitedKeyFields
                      ELSE concatIfNotExistsFields(item.visitedKeyFields,
                                                   edges[i].requirement),
                      <<edges[i]>>))))

\* the for loop over the edges of one queue item, from edge i on
indirectEdges(graph, name, sourceGraphId, item, edges, i, st) ==
  IF i > Len(edges) THEN st
  ELSE indirectEdges(graph, name, sourceGraphId, item, edges, i + 1,
         indirectEdge(graph, name, sourceGraphId, item, edges[i], st,
           canSatisfyEdge(graph, edges[i], item.path,
             Excluded(concatIfNotExistsString(item.visitedGraphs,
                                              edges[i].tail.subgraphId),
                      item.visitedKeyFields, <<edges[i]>>))))

\* the while loop over the queue: the last item is popped
indirectQueue(graph, name, sourceGraphId, st) ==
  IF Len(st.queue) = 0 THEN st.nextPaths
  ELSE indirectQueue(graph, name, sourceGraphId,
         indirectEdges(graph, name, sourceGraphId, Last(st.queue),
                       edgesOfHead(graph, tail(Last(st.queue).path)), 1,
                       [queue |-> SubSeq(st.queue, 1, Len(st.queue) - 1),
                        nextPaths |-> st.nextPaths]))

findIndirectPaths(graph, path, name, excluded) ==
  findBestPathsPerSubgraph(
    indirectQueue(graph, name, tail(path).subgraphId,
                  [queue |-> <<[visitedGraphs |-> excluded.graphIds,
                                visitedKeyFields |-> excluded.requirements,
                                path |-> path]>>,
                   nextPaths |-> <<>>]))

\* validateFieldRequirement, lines 446-473: the RequirementResult for the
\* paths found
requirementResult(requirement, nextPaths) ==
  IF Len(nextPaths) = 0
    THEN [success |-> FALSE, paths |-> <<>>, requirements |-> <<>>]
  ELSE IF requirement.selection.isLeaf
          \/ Len(requirement.selection.selectionSet) = 0
    THEN [success |-> TRUE, paths |-> nextPaths, requirements |-> <<>>]
  ELSE [success |-> TRUE, paths |-> nextPaths,
        requirements |->
          [i \in 1..Len(requirement.selection.selectionSet) |->
             [selection |-> requirement.selection.selectionSet[i],
              paths |-> nextPaths]]]

\* validateFieldRequirement, had it looked for direct paths only
validateFieldRequirementDirect(graph, requirement, excluded) ==
  requirementResult(requirement,
    Flatten([i \in 1..Len(requirement.paths) |->
               findDirectPaths(graph, requirement.paths[i],
                               requirement.selection.fieldName, excluded)]))

\* validateFieldRequirement: requirement is a MoveRequirement
\* [selection, paths]
validateFieldRequirement(graph, requirement, excluded) ==
  requirementResult(requirement,
    Flatten([i \in 1..Len(requirement.paths) |->
               findDirectPaths(graph, requirement.paths[i],
                               requirement.selection.fieldName, excluded)])
    \o Flatten([i \in 1..Len(requirement.paths) |->
                  findIndirectPaths(graph, requirement.paths[i],
                                    requirement.selection.fieldName, excluded)]))

\* Array.unshift of every element of items, one after the other
RECURSIVE UnshiftAll(_, _)
UnshiftAll(array, items) ==
  IF items = <<>> THEN array ELSE UnshiftAll(<<Head(items)>> \o array, Tail(items))

\* canSatisfyEdge, had it not pushed the paths found to pathsToRequirements
requirementValidatedDroppingPaths(graph, rest, pathsToRequirements, excluded, result) ==
  IF ~result.success THEN [success |-> FALSE, paths |-> <<>>]
  ELSE requirementsLoop(graph, UnshiftAll(rest, result.requirements),
                        pathsToRequirements, excluded)

\* canSatisfyEdge, lines 369-385: what follows validateFieldRequirement
\* (result) in a pass of the while loop; rest is requirements after the pop
requirementValidated(graph, rest, pathsToRequirements, excluded, result) ==
  IF ~result.success THEN [success |-> FALSE, paths |-> <<>>]
  ELSE requirementsLoop(graph,
         UnshiftAll(rest, result.requirements),
         pathsToRequirements \o findBestPathsPerSubgraph(result.paths),
         excluded)

\* the while loop of canSatisfyEdge: the last requirement is popped
requirementsLoop(graph, requirements, pathsToRequirements, excluded) ==
  IF Len(requirements) = 0 THEN [success |-> TRUE, paths |-> pathsToRequirements]
  ELSE requirementValidated(graph,
         SubSeq(requirements, 1, Len(requirements) - 1),
         pathsToRequirements, excluded,
         validateFieldRequirement(graph, Last(requirements), excluded))

\* canSatisfyEdge.  A requirement holds only "field" nodes: the resolver
\* that builds it rejects fragments, so the throw on a fragment does not
\* occur.
canSatisfyEdge(graph, edge, path, excluded) ==
  IF edge.requirement.isNull THEN [success |-> TRUE, paths |-> <<>>]
  ELSE requirementsLoop(graph,
         UnshiftAll(<<>>, [i \in 1..Len(edge.requirement.selectionSet) |->
                             [selection |-> edge.requirement.selectionSet[i],
                              paths |-> <<clone(path)>>]]),
         <<>>, excluded)

\* operationTypeToTypeName
operationTypeToTypeName(operationType) ==
  CASE operationType = "query" -> "Query"
    [] operationType = "mutation" -> "Mutation"
    [] operationType = "subscription" -> "Subscription"

\* walkQuery, lines 48-83: one pass of the while loop over `paths`
expandPaths(graph, paths, name) ==
  Flatten([i \in 1..Len(paths) |->
             findDirectPaths(graph, paths[i], name, NoExcluded)
             \o findIndirectPaths(graph, paths[i], name, NoExcluded)])

(***************************************************************************)
(* The supergraphs of the model: subgraphs A, B and C, each one of a few   *)
(* variants of the types Query and User.                                   *)
(***************************************************************************)
Scalar(name, type) == ObjectTypeField(name, type, FALSE, FALSE)
External(name, type) == ObjectTypeField(name, type, FALSE, TRUE)
ToUser(name) == ObjectTypeField(name, "User", FALSE, FALSE)

QueryType(graphId) ==
  ObjectType("Query", <<JoinType(graphId, FALSE, "", TRUE)>>,
             <<ObjectTypeField("users", "User", TRUE, FALSE)>>)

\* type Mutation { addUser: User }
MutationType(graphId) ==
  ObjectType("Mutation", <<JoinType(graphId, FALSE, "", TRUE)>>,
             <<ObjectTypeField("addUser", "User", FALSE, FALSE)>>)

UserType(graphId, keys, fields) ==
  ObjectType("User",
             [i \in 1..Len(keys) |-> JoinType(graphId, TRUE, keys[i], TRUE)],
             fields)

Subgraph(graphId, types) == [graphId |-> graphId, types |-> types]

\* subgraphs with a Query type; User is an entity with key "id"
RootVariants ==
  {"users", "users-friend", "users-boss", "users-age-friend", "users-ext"}

RootSubgraph(graphId, v) ==
  Subgraph(graphId, <<QueryType(graphId),
    UserType(graphId, <<"id">>,
      CASE v = "users" -> <<Scalar("id", "ID")>>
        [] v = "users-friend" -> <<Scalar("id", "ID"), ToUser("friend")>>
        [] v = "users-boss" -> <<Scalar("id", "ID"), ToUser("boss")>>
        [] v = "users-age-friend" ->
             <<Scalar("id", "ID"), Scalar("age", "Int"), ToUser("friend")>>
        [] v = "users-ext" -> <<External("id", "ID"), Scalar("age", "Int")>>)>>)

\* subgraphs without a Query type
EntityVariants ==
  {"age", "friend-age", "age-key", "two-keys", "nested-key", "unresolvable"}

EntitySubgraph(graphId, v) ==
  Subgraph(graphId, <<
    CASE v = "age" ->
           UserType(graphId, <<"id">>, <<Scalar("id", "ID"), Scalar("age", "Int")>>)
      [] v = "friend-age" ->
           UserType(graphId, <<"id">>,
                    <<Scalar("id", "ID"), ToUser("friend"), Scalar("age", "Int")>>)
      [] v = "age-key" ->
           UserType(graphId, <<"age">>,
                    <<Scalar("id", "ID"), Scalar("age", "Int"), ToUser("boss")>>)
      [] v = "two-keys" ->
           UserType(graphId, <<"id", "id age">>,
                    <<Scalar("id", "ID"), Scalar("age", "Int"), ToUser("boss")>>)
      [] v = "nested-key" ->
           UserType(graphId, <<"age boss{id}">>,
                    <<Scalar("id", "ID"), Scalar("age", "Int"), ToUser("boss"),
                      ToUser("friend")>>)
      [] v = "unresolvable" ->
           ObjectType("User", <<JoinType(graphId, TRUE, "id", FALSE)>>,
                      <<Scalar("id", "ID"), Scalar("age", "Int")>>)>>)

\* a subgraph with a Query and a Mutation type
MutationSubgraph(graphId) ==
  Subgraph(graphId, <<QueryType(graphId), MutationType(graphId),
                      UserType(graphId, <<"id">>, <<Scalar("id", "ID")>>)>>)

Supergraphs ==
  {<<RootSubgraph("A", a)>> : a \in RootVariants}
  \cup {<<MutationSubgraph("A")>>,
        <<MutationSubgraph("A"), RootSubgraph("B", "users")>>}
  \cup {<<RootSubgraph("A", a), RootSubgraph("B", b)>> :
          a \in RootVariants, b \in RootVariants}
  \cup {<<EntitySubgraph("A", a), RootSubgraph("B", b)>> :
          a \in EntityVariants, b \in RootVariants}
  \cup {<<RootSubgraph("A", a), EntitySubgraph("B", b), EntitySubgraph("C", c)>> :
          a \in {"users", "users-ext"}, b \in EntityVariants,
          c \in EntityVariants}

FieldNames == {"users", "id", "age", "friend", "boss"}

OperationTypes == {"query", "mutation"}

MaxSteps == 4

Step(name) == [kind |-> "Field", name |-> name]

\* what shift() gives on an empty array
Undefined == [kind |-> "undefined"]

\* what stepsCloned.shift() can give
Shifted == {Undefined} \cup {Step(name) : name \in FieldNames}

(***************************************************************************)
(* State: the supergraph, the graph parseSupergraph has built of it, a     *)
(* call of walkQuery on the graph and the plan generateQueryPlan makes of  *)
(* the path the call returns.  walkQuery reads `steps` only through        *)
(* stepsCloned.shift(), one step per pass of its loop, so the model draws  *)
(* each step when it is shifted off: `steps` holds the steps read so far   *)
(* and, when the call has ended, the steps the call has read.  A call      *)
(* reads at most MaxSteps steps.                                          *)
(***************************************************************************)
VARIABLES
  supergraph,     \* the Supergraph (type tables) the graph is built from
  graph,          \* the merged Graph
  pc,             \* "idle", "loop", "returned", "threw"
  operationType,  \* argument of walkQuery
  steps,          \* argument of walkQuery, as far as it has been read
  stack,          \* the [step, paths] entries
  nextPaths,      \* nextPaths of the last pass of the loop
  result,         \* what walkQuery returned
  opPath,         \* an OperationPath a caller builds through the class's methods
  resolver,       \* a SelectionResolver: its subgraph and its cache
  resolved,       \* the last call of resolver.resolve and its outcome
  plan,           \* what generateQueryPlan made of the returned path
  heap,           \* the inner arrays of requiredPathsForEdges, by their place
  source,         \* an OperationPath object that advance or clone is called on
  derived         \* the OperationPath object the call has returned

resolverVars == <<resolver, resolved>>

shareVars == <<heap, source, derived>>

walkerVars == <<pc, operationType, steps, stack, nextPaths, result>>

vars ==
  <<supergraph, graph, pc, operationType, steps, stack, nextPaths, result, opPath,
    resolverVars, plan, shareVars>>

\* the null walkQuery returns, and the value of result before it returns
NullPath == [isNull |-> TRUE]

Returned(path) == [isNull |-> FALSE, path |-> path]

\* no OperationPath built
NoPath == [isNull |-> TRUE]

\* generateQueryPlan not called
NoPlan == [isNull |-> TRUE]

\* the resolvers of parseSupergraph are local to it: none is left
NoResolver == [isNull |-> TRUE]

\* no call of resolve made
NoCall == [isNull |-> TRUE]

Init ==
  /\ supergraph \in Supergraphs
  /\ graph = parseSupergraph(supergraph)
  /\ pc = "idle"
  /\ operationType = "query"
  /\ steps = <<>>
  /\ stack = <<>>
  /\ nextPaths = <<>>
  /\ result = NullPath
  /\ opPath = NoPath
  /\ resolver = NoResolver
  /\ resolved = NoCall
  /\ plan = NoPlan
  /\ heap = <<>>
  /\ source = NoPath
  /\ derived = NoPath

\* walkQuery, lines 30-46: nodesOf throws when the root type has no node;
\* otherwise the first step is shifted off and put on the stack with the
\* root paths.  With no step at all (steps is empty) the first pass of
\* the loop reads step.kind of undefined, which throws.
WalkQueryStart(ot, step) ==
  /\ pc = "idle"
  /\ operationType' = ot
  /\ IF NodesOfThrows(graph, operationTypeToTypeName(ot)) \/ step = Undefined
       THEN /\ pc' = "threw"
            /\ UNCHANGED <<steps, stack>>
       ELSE LET rootNodes == nodesOf(graph, operationTypeToTypeName(ot))
                initialPaths == [i \in 1..Len(rootNodes) |->
                                   OperationPath(rootNodes[i], <<>>, <<>>, 0)]
            IN /\ pc' = "loop"
               /\ steps' = <<step>>
               /\ stack' = <<[step |-> step, paths |-> initialPaths]>>
  /\ opPath' = NoPath
  /\ UNCHANGED <<plan, resolverVars, shareVars, supergraph, graph, nextPaths, result>>

\* walkQuery, had a pass that finds no path for a step started over from
\* the root paths and the first step
WalkQueryPassRestarting(nextStep, popped, found) ==
  /\ nextPaths' = found
  /\ IF nextStep # Undefined
       THEN /\ UNCHANGED <<pc, result>>
            /\ IF Len(found) > 0
                 THEN /\ steps' = Append(steps, nextStep)
                      /\ stack' = Append(popped, [step |-> nextStep, paths |-> found])
                 ELSE /\ steps' = <<steps[1]>>
                      /\ stack' =
                           <<[step |-> steps[1],
                              paths |->
                                [i \in 1..Len(nodesOf(graph, operationTypeToTypeName(operationType))) |->
                                   OperationPath(nodesOf(graph, operationTypeToTypeName(operationType))[i],
                                                 <<>>, <<>>, 0)]]>>
       ELSE /\ steps' = steps
            /\ stack' = popped
            /\ IF findBestPathThrows(found)
                 THEN pc' = "threw" /\ UNCHANGED result
                 ELSE pc' = "returned" /\ result' = Returned(findBestPath(found))

\* walkQuery, lines 85-97: the end of a pass of the while loop that has
\* found the paths `found`; nextStep is what stepsCloned.shift() gives
WalkQueryPass(nextStep, popped, found) ==
  /\ nextPaths' = found
  /\ steps' = IF nextStep # Undefined THEN Append(steps, nextStep) ELSE steps
  /\ stack' = IF Len(found) > 0 /\ nextStep # Undefined
                THEN Append(popped, [step |-> nextStep, paths |-> found])
                ELSE popped
  /\ IF nextStep # Undefined
       THEN UNCHANGED <<pc, result>>
       ELSE IF findBestPathThrows(found)
         THEN pc' = "threw" /\ UNCHANGED result
         ELSE pc' = "returned" /\ result' = Returned(findBestPath(found))

\* walkQuery, lines 39-97: one pass of the while loop
WalkQueryLoop(nextStep) ==
  /\ pc = "loop"
  /\ Len(stack) > 0
  /\ nextStep # Undefined => Len(steps) < MaxSteps
  /\ WalkQueryPass(nextStep, SubSeq(stack, 1, Len(stack) - 1),
                   expandPaths(graph, Last(stack).paths, Last(stack).step.name))
  /\ UNCHANGED <<plan, resolverVars, shareVars, supergraph, graph, operationType, opPath>>

\* walkQuery, lines 39 and 101: the stack is empty, null is returned
WalkQueryNull ==
  /\ pc = "loop"
  /\ Len(stack) = 0
  /\ pc' = "returned"
  /\ result' = NullPath
  /\ UNCHANGED <<plan, resolverVars, shareVars, supergraph, graph, operationType, steps, stack, nextPaths,
               opPath>>

(***************************************************************************)
(* plan.ts: generateQueryPlan.  A string the source builds by appending    *)
(* is the sequence of the appended pieces; the indentation of a piece is   *)
(* counted in units of two spaces.                                         *)
(***************************************************************************)
Piece(indent, text) == [indent |-> indent, text |-> text]

CompositeTypeKinds == {OBJECT_TYPE, "INTERFACE_TYPE", "UNION_TYPE"}

ServiceSegment(graphId, edges, startNode, endNode) ==
  [graphId |-> graphId, edges |-> edges, startNode |-> startNode, endNode |-> endNode]

\* the for loop of groupPathByService from edge i on, and the push after it
RECURSIVE groupLoop(_, _, _, _, _, _)
groupLoop(edges, i, currentService, currentGroup, startNode, segments) ==
  IF i > Len(edges)
    THEN IF Len(currentGroup) > 0
           THEN Append(segments, ServiceSegment(currentService, currentGroup, startNode,
                                                Last(currentGroup).tail))
           ELSE segments
  ELSE LET edge == edges[i]
           edgeService == edge.head.subgraphId
           closes == currentService # edgeService /\ Len(currentGroup) > 0
       IN groupLoop(edges, i + 1, edgeService,
                    IF closes THEN <<edge>> ELSE Append(currentGroup, edge),
                    IF closes THEN edge.head ELSE startNode,
                    IF closes
                      THEN Append(segments,
                                  ServiceSegment(currentService, currentGroup, startNode,
                                                 Last(currentGroup).tail))
                      ELSE segments)

groupPathByService(path) ==
  IF Len(path.edges) = 0
    THEN <<ServiceSegment(path.rootNode.subgraphId, <<>>, path.rootNode, path.rootNode)>>
    ELSE groupLoop(path.edges, 1, path.edges[1].head.subgraphId, <<>>, path.rootNode, <<>>)

\* findEntityRequirements: the flattenPath built from the edges before edge i
RECURSIVE flattenPathBefore(_, _)
flattenPathBefore(edges, i) ==
  IF i <= 1 THEN <<>>
  ELSE LET pathEdge == edges[i - 1]
       IN flattenPathBefore(edges, i - 1)
            \o (IF pathEdge.move.kind = "FieldMove"
                  THEN <<pathEdge.move.fieldName>>
                         \o (IF pathEdge.move.isList THEN <<"@">> ELSE <<>>)
                  ELSE <<>>)

\* the edges findEntityRequirements makes a requirement of
requirementIndexes(path) ==
  {i \in 1..Len(path.edges) :
     path.edges[i].move.kind = "EntityMove" /\ ~path.edges[i].requirement.isNull}

\* hasTargetField, had it looked for the last edge of the path only
hasTargetFieldAtEnd(path, i) ==
  /\ i + 1 = Len(path.edges)
  /\ path.edges[i + 1].move.kind = "FieldMove"

\* targetField is found: the next edge is a FieldMove (of a field with a name)
hasTargetField(path, i) ==
  /\ i + 1 <= Len(path.edges)
  /\ path.edges[i + 1].move.kind = "FieldMove"
  /\ path.edges[i + 1].move.fieldName # ""

\* findEntityRequirements throws "Oopsie poopsie"
findEntityRequirementsThrows(path) ==
  \E i \in requirementIndexes(path) : ~hasTargetField(path, i)

EntityRequirement(path, i) ==
  [graphId |-> path.edges[i].head.subgraphId,
   entityTypeName |-> path.edges[i].head.typeName,
   requiredFields |-> path.edges[i].requirement,
   targetGraphId |-> path.edges[i].tail.subgraphId,
   targetField |-> path.edges[i + 1].move.fieldName,
   flattenPath |-> flattenPathBefore(path.edges, i)]

RECURSIVE entityRequirementsFrom(_, _)
entityRequirementsFrom(path, i) ==
  IF i > Len(path.edges) THEN <<>>
  ELSE (IF i \in requirementIndexes(path) THEN <<EntityRequirement(path, i)>> ELSE <<>>)
         \o entityRequirementsFrom(path, i + 1)

findEntityRequirements(path) == entityRequirementsFrom(path, 1)

\* addRequirementFields over a selection set (every selection is a field:
\* the resolver makes no fragment)
RECURSIVE requirementFields(_, _)
requirementFields(selectionSet, indent) ==
  IF selectionSet = <<>> THEN <<>>
  ELSE LET selection == Head(selectionSet)
       IN <<Piece(indent, selection.fieldName)>>
            \o (IF ~selection.isLeaf /\ Len(selection.selectionSet) > 0
                  THEN <<Piece(0, " {\n")>>
                         \o requirementFields(selection.selectionSet, indent + 1)
                         \o <<Piece(indent, "}\n")>>
                  ELSE <<Piece(0, "\n")>>)
            \o requirementFields(Tail(selectionSet), indent)

\* selecting the fields of an entity move's requirement, without those
\* inside a field's own selection set
addRequirementFieldsAtTop(requirement, indent) ==
  Flatten([i \in 1..Len(requirement.selectionSet) |->
             <<Piece(indent, requirement.selectionSet[i].fieldName), Piece(0, "\n")>>])

addRequirementFields(requirement, indent) ==
  requirementFields(requirement.selectionSet, indent)

\* the closing braces of buildSelectionSetFromPath
closeBraces(depth) == [k \in 1..(depth + 1) |-> Piece(depth + 1 - k, "}\n")]

\* the while loop of buildSelectionSetFromPath from edge i on
RECURSIVE selectionLoop(_, _, _, _)
selectionLoop(pathSegment, i, depth, currentSelection) ==
  IF i > Len(pathSegment) THEN currentSelection \o closeBraces(depth)
  ELSE LET edge == pathSegment[i]
           isLast == i = Len(pathSegment)
           started == IF currentSelection = <<>> THEN <<Piece(0, "{\n")>>
                      ELSE currentSelection
           named == Append(started, Piece(depth, edge.move.fieldName))
           opened == named \o <<Piece(0, " {\n"), Piece(depth + 1, "__typename\n")>>
       IN IF edge.move.kind = "FieldMove"
            THEN IF edge.tail.typeKind \in CompositeTypeKinds
                   THEN IF isLast
                          THEN selectionLoop(pathSegment, i + 1, depth,
                                 opened
                                   \o (IF edge.requirement.isNull THEN <<>>
                                       ELSE addRequirementFields(edge.requirement, depth + 1))
                                   \o <<Piece(depth, "}"), Piece(0, "\n")>>)
                          ELSE selectionLoop(pathSegment, i + 1, depth + 1,
                                             Append(opened, Piece(0, "\n")))
                   ELSE selectionLoop(pathSegment, i + 1, depth,
                                      Append(named, Piece(0, "\n")))
            ELSE selectionLoop(pathSegment, i + 1, depth,
                   IF edge.requirement.isNull THEN currentSelection
                   ELSE currentSelection \o addRequirementFields(edge.requirement, depth))

buildSelectionSetFromPath(pathSegment) ==
  IF Len(pathSegment) = 0 THEN <<Piece(0, "{}")>>
  ELSE selectionLoop(pathSegment, 1, 0, <<>>)

buildOperationFromPathSegment(edges) ==
  IF Len(edges) = 0 THEN <<Piece(0, "{}")>> ELSE buildSelectionSetFromPath(edges)

\* the printed _entities query: it is told by the type of its inline
\* fragment and the field selected there
buildEntityOperation(typeName, fieldName) ==
  [entities |-> TRUE, typeName |-> typeName, fieldName |-> fieldName]

createFetchNode(serviceName, edges) ==
  [kind |-> "Fetch", serviceName |-> serviceName, variableUsages |-> <<>>,
   operation |-> buildOperationFromPathSegment(edges), operationKind |-> "query"]

\* Selection.getTypeName()
getTypeName(selection) == selection.typeName

\* createEntityFetchNode, had it fetched from the subgraph the move leaves
createEntityFetchNodeFromHead(req) ==
  [kind |-> "Flatten",
   path |-> req.flattenPath,
   node |-> [kind |-> "Fetch", serviceName |-> req.graphId,
             requires |-> [kind |-> "fragment",
                           typeName |-> getTypeName(req.requiredFields),
                           selectionSet |-> req.requiredFields.selectionSet],
             variableUsages |-> <<>>,
             operation |-> buildEntityOperation(req.entityTypeName, req.targetField),
             operationKind |-> "query"]]

createEntityFetchNode(req) ==
  [kind |-> "Flatten",
   path |-> req.flattenPath,
   node |-> [kind |-> "Fetch", serviceName |-> req.targetGraphId,
             requires |-> [kind |-> "fragment",
                           typeName |-> getTypeName(req.requiredFields),
                           selectionSet |-> req.requiredFields.selectionSet],
             variableUsages |-> <<>>,
             operation |-> buildEntityOperation(req.entityTypeName, req.targetField),
             operationKind |-> "query"]]

\* the planNodes of generateQueryPlan
planNodes(mainSegments, entityRequirements) ==
  (IF Len(mainSegments) > 0
     THEN <<createFetchNode(mainSegments[1].graphId, mainSegments[1].edges)>>
     ELSE <<>>)
    \o [k \in 1..Len(entityRequirements) |-> createEntityFetchNode(entityRequirements[k])]

\* QueryPlan, had it made a Sequence of any number of nodes
QueryPlanOfSequence(nodes) ==
  [isNull |-> FALSE, threw |-> FALSE, kind |-> "QueryPlan",
   node |-> [kind |-> "Sequence", nodes |-> nodes]]

\* the QueryPlan of the nodes
QueryPlan(nodes) ==
  [isNull |-> FALSE, threw |-> FALSE, kind |-> "QueryPlan",
   node |-> IF Len(nodes) = 1 THEN nodes[1]
            ELSE [kind |-> "Sequence", nodes |-> nodes]]

\* generateQueryPlan has thrown
PlanThrew == [isNull |-> FALSE, threw |-> TRUE]

generateQueryPlan(mainPath) ==
  IF findEntityRequirementsThrows(mainPath) THEN PlanThrew
  ELSE QueryPlan(planNodes(groupPathByService(mainPath),
                           findEntityRequirements(mainPath)))

\* generateQueryPlan, had it reversed in place the selection sets it puts
\* into the requires of its Fetch nodes: they are the arrays of the
\* requirements of the graph's entity edges
reverseRequirements(g) ==
  [g EXCEPT !.edgesByHeadTypeIndex =
     [i \in DOMAIN @ |->
        [j \in DOMAIN @[i] |->
           IF @[i][j].move.kind = "EntityMove"
             THEN [@[i][j] EXCEPT !.requirement.selectionSet = Reverse(@)]
             ELSE @[i][j]]]]

GenerateQueryPlanReversingRequires ==
  /\ pc = "returned"
  /\ ~result.isNull
  /\ plan' = generateQueryPlan(result.path)
  /\ graph' = reverseRequirements(graph)
  /\ UNCHANGED <<resolverVars, shareVars, supergraph, walkerVars, opPath>>

\* generateQueryPlan(path) on the path walkQuery returned; it may be
\* called again on the same path
GenerateQueryPlan ==
  /\ pc = "returned"
  /\ ~result.isNull
  /\ plan' = generateQueryPlan(result.path)
  /\ UNCHANGED <<resolverVars, shareVars, supergraph, graph, walkerVars, opPath>>

\* the call of walkQuery is over, and what was made of its result is
\* dropped: the graph is there for the next call
NextCall ==
  /\ pc \in {"returned", "threw"}
  /\ pc' = "idle"
  /\ operationType' = "query"
  /\ steps' = <<>>
  /\ stack' = <<>>
  /\ nextPaths' = <<>>
  /\ result' = NullPath
  /\ plan' = NoPlan
  /\ UNCHANGED <<resolverVars, shareVars, supergraph, graph, opPath>>

Next ==
  \/ \E ot \in OperationTypes, step \in Shifted : WalkQueryStart(ot, step)
  \/ \E nextStep \in Shifted : WalkQueryLoop(nextStep)
  \/ WalkQueryNull
  \/ GenerateQueryPlan
  \/ NextCall

Spec == Init /\ [][Next]_vars

\* walkQuery runs on one thread, and nothing stops it between two passes of
\* its loop: a pass that can be made is made.
\* a pass of the while loop of walkQuery
WalkQueryLoopPass ==
  WalkQueryNull \/ \E nextStep \in Shifted : WalkQueryLoop(nextStep)

\* weak fairness of the passes, WF_vars(WalkQueryLoopPass), with ENABLED
\* written out.  A pass can be made exactly when pc = "loop", and it is
\* never a stuttering step: it ends the call or it appends the step it
\* shifted off to steps
SpecLive ==
  Spec /\ ([]<>(pc # "loop") \/ []<><<WalkQueryLoopPass>>_vars)

(***************************************************************************)
(* The methods of OperationPath, called by a caller of the class on a path *)
(* of its own, before any call of walkQuery: a root-only path is made, and *)
(* advance, addRequiredPaths and clone are applied to it in any order.     *)
(* A path gets at most MaxPathEdges edges.                                 *)
(***************************************************************************)
MaxPathEdges == 2

\* new OperationPath(node), node a root node of the graph
NewOperationPath(node) ==
  /\ pc = "idle"
  /\ opPath = NoPath
  /\ opPath' = OperationPath(node, <<>>, <<>>, 0)
  /\ UNCHANGED <<plan, resolverVars, shareVars, supergraph, graph, walkerVars>>

\* opPath = opPath.advance(edge)
PathAdvance(edge) ==
  /\ pc = "idle"
  /\ opPath # NoPath
  /\ Len(opPath.edges) < MaxPathEdges
  /\ opPath' = advance(opPath, edge)
  /\ UNCHANGED <<plan, resolverVars, shareVars, supergraph, graph, walkerVars>>

\* opPath.addRequiredPaths(paths), once for an edge, as the walker calls
\* it; a throw leaves the path as it is
PathAddRequiredPaths(paths) ==
  /\ pc = "idle"
  /\ opPath # NoPath
  /\ IF addRequiredPathsThrows(opPath)
       THEN UNCHANGED opPath
       ELSE /\ Last(opPath.requiredPathsForEdges) = <<>>
            /\ opPath' = addRequiredPaths(opPath, paths)
  /\ UNCHANGED <<plan, resolverVars, shareVars, supergraph, graph, walkerVars>>

\* opPath = opPath.clone()
PathClone ==
  /\ pc = "idle"
  /\ opPath # NoPath
  /\ opPath' = clone(opPath)
  /\ UNCHANGED <<plan, resolverVars, shareVars, supergraph, graph, walkerVars>>

NextPaths ==
  \/ \E node \in Range(nodesOf(graph, "Query")) : NewOperationPath(node)
  \/ /\ opPath # NoPath
     /\ \E edge \in Range(edgesOfHead(graph, tail(opPath))) : PathAdvance(edge)
  \/ /\ opPath # NoPath
     /\ \E paths \in {<<>>, <<opPath>>} : PathAddRequiredPaths(paths)
  \/ PathClone

SpecPaths == Init /\ [][Next \/ NextPaths]_vars

(***************************************************************************)
(* SelectionResolver with its cache: new SelectionResolver(subgraph) and   *)
(* calls of resolve on it.                                                 *)
(***************************************************************************)
\* `${typeName}/${keyFields}`: no name holds a "/", so the pair stands for
\* the string
keyFactory(typeName, keyFields) == <<typeName, keyFields>>

\* resolveSelectionSetNode and resolveFieldNode throw: a selection that is
\* no field, a type or a field the subgraph does not define (invariant)
RECURSIVE selectionSetThrows(_, _, _)
selectionThrows(subgraph, typeName, selection) ==
  IF selection.kind # "Field" THEN TRUE
  ELSE IF selection.name = "__typename" THEN FALSE
  ELSE IF ~HasTypeState(subgraph, typeName) THEN TRUE
  ELSE IF \A i \in 1..Len(TypeState(subgraph, typeName).fields) :
            TypeState(subgraph, typeName).fields[i].name # selection.name
    THEN TRUE
  ELSE /\ selection.hasSelectionSet
       /\ selectionSetThrows(subgraph,
                             FieldTypeOf(subgraph, typeName, selection.name),
                             selection.selections)

selectionSetThrows(subgraph, typeName, selections) ==
  \E i \in 1..Len(selections) : selectionThrows(subgraph, typeName, selections[i])

\* resolve throws on a miss of the cache
resolveThrows(subgraph, typeName, keyFields) ==
  \/ ~HasTypeState(subgraph, typeName)
  \/ selectionSetThrows(subgraph, typeName, parseFields(keyFields))

NewSelectionResolver(subgraph) == [isNull |-> FALSE, subgraph |-> subgraph, cache |-> <<>>]

\* this.cache.set(key, fields)
cacheSet(cache, key, fields) ==
  [k \in DOMAIN cache \cup {key} |-> IF k = key THEN fields ELSE cache[k]]

Call(typeName, keyFields, threw, fields) ==
  [isNull |-> FALSE, typeName |-> typeName, keyFields |-> keyFields,
   threw |-> threw, fields |-> fields]

\* resolve, had it entered the key into the cache before it resolved it
resolveCachingFirst(r, typeName, keyFields) ==
  LET key == keyFactory(typeName, keyFields)
  IN IF key \in DOMAIN r.cache
       THEN [resolver |-> r, call |-> Call(typeName, keyFields, FALSE, r.cache[key])]
     ELSE IF resolveThrows(r.subgraph, typeName, keyFields)
       THEN [resolver |-> [r EXCEPT !.cache = cacheSet(r.cache, key, NullSelection)],
             call |-> Call(typeName, keyFields, TRUE, NullSelection)]
     ELSE [resolver |->
             [r EXCEPT !.cache = cacheSet(r.cache, key,
                                          resolve(r.subgraph, typeName, keyFields))],
           call |-> Call(typeName, keyFields, FALSE,
                         resolve(r.subgraph, typeName, keyFields))]

\* SelectionResolver.resolve on the resolver r: the resolver after the
\* call and the call's outcome
SelectionResolverResolve(r, typeName, keyFields) ==
  LET key == keyFactory(typeName, keyFields)
  IN IF key \in DOMAIN r.cache
       THEN [resolver |-> r, call |-> Call(typeName, keyFields, FALSE, r.cache[key])]
     ELSE IF resolveThrows(r.subgraph, typeName, keyFields)
       THEN [resolver |-> r, call |-> Call(typeName, keyFields, TRUE, NullSelection)]
     ELSE [resolver |->
             [r EXCEPT !.cache = cacheSet(r.cache, key,
                                          resolve(r.subgraph, typeName, keyFields))],
           call |-> Call(typeName, keyFields, FALSE,
                         resolve(r.subgraph, typeName, keyFields))]

\* the type names and key strings resolve is called with
TypeNames == {"User", "Review"}

KeyStrings ==
  {"id", "age", "id age", "age id", "age boss{id}", "boss{id} age",
   "boss{id age}", "boss{age id}", "boss{id} boss{age}", "boss{age} boss{id}",
   "...on User{id}", "id ...F", "boss{...on User{id}}", "id boss{id ...F}"}

\* the cache holds at most this many selections
MaxCached == 3

Resolve(typeName, keyFields) ==
  /\ ~resolver.isNull
  /\ \/ Cardinality(DOMAIN resolver.cache) < MaxCached
     \/ keyFactory(typeName, keyFields) \in DOMAIN resolver.cache
     \/ resolveThrows(resolver.subgraph, typeName, keyFields)
  /\ resolver' = SelectionResolverResolve(resolver, typeName, keyFields).resolver
  /\ resolved' = SelectionResolverResolve(resolver, typeName, keyFields).call
  /\ UNCHANGED <<supergraph, graph, walkerVars, opPath, plan, shareVars>>

\* the supergraphs whose resolvers are called: every kind of subgraph is
\* in one of them
ResolverSupergraphs ==
  {<<RootSubgraph("A", a)>> : a \in RootVariants}
  \cup {<<EntitySubgraph("A", a), RootSubgraph("B", "users")>> : a \in EntityVariants}

\* the resolver of one subgraph of a supergraph, as parseSupergraph
\* constructs it
InitResolver ==
  /\ supergraph \in ResolverSupergraphs
  /\ graph = parseSupergraph(supergraph)
  /\ pc = "idle"
  /\ operationType = "query"
  /\ steps = <<>>
  /\ stack = <<>>
  /\ nextPaths = <<>>
  /\ result = NullPath
  /\ opPath = NoPath
  /\ \E s \in 1..Len(supergraph) : resolver = NewSelectionResolver(supergraph[s])
  /\ resolved = NoCall
  /\ plan = NoPlan
  /\ heap = <<>>
  /\ source = NoPath
  /\ derived = NoPath

NextResolver ==
  \E typeName \in TypeNames, keyFields \in KeyStrings : Resolve(typeName, keyFields)

SpecResolver == InitResolver /\ [][NextResolver]_vars

(***************************************************************************)
(* OperationPath objects with their arrays by reference.  advance and      *)
(* clone give the constructor new outer arrays (concat, slice) that hold   *)
(* the inner arrays of the source; addRequiredPaths pushes into the last   *)
(* inner array.  An inner array is its place in `heap`.                    *)
(***************************************************************************)
RefPath(rootNode, edges, lists, cost) ==
  [isNull |-> FALSE, rootNode |-> rootNode, edges |-> edges, lists |-> lists,
   cost |-> cost]

\* the OperationPath the object stands for, its inner arrays read
deref(h, this) ==
  OperationPath(this.rootNode, this.edges,
                [i \in 1..Len(this.lists) |-> h[this.lists[i]]], this.cost)

\* this.advance(edge): [[]] is a new inner array, at `address`
refAdvance(this, edge, address) ==
  RefPath(this.rootNode, Append(this.edges, edge), Append(this.lists, address),
          this.cost + calculateCost(edge))

\* this.clone(): slice() copies the outer array, not the inner ones
refClone(this) == RefPath(this.rootNode, this.edges, this.lists, 0)

\* the inner arrays have at most this many paths
MaxRequired == 2

\* a path to push: the path of no edges from a root node
RequiredPath(node) == OperationPath(node, <<>>, <<>>, 0)

otherThanShare == <<supergraph, graph, walkerVars, opPath, resolverVars, plan>>

\* source = new OperationPath(node)
SourceNew(node) ==
  /\ source.isNull
  /\ source' = RefPath(node, <<>>, <<>>, 0)
  /\ UNCHANGED <<heap, derived, otherThanShare>>

\* source = source.advance(edge)
SourceAdvance(edge) ==
  /\ ~source.isNull /\ derived.isNull
  /\ Len(source.edges) < MaxPathEdges
  /\ heap' = Append(heap, <<>>)
  /\ source' = refAdvance(source, edge, Len(heap) + 1)
  /\ UNCHANGED <<derived, otherThanShare>>

\* object.addRequiredPaths(paths) when it does not throw: the push and
\* the cost
refAddRequiredPaths(h, this, paths) ==
  [heap |-> [h EXCEPT ![Last(this.lists)] = @ \o paths],
   path |-> [this EXCEPT !.cost = @ + SumCost(paths)]]

\* source.addRequiredPaths(paths)
SourceAddRequiredPaths(paths) ==
  /\ ~source.isNull /\ derived.isNull
  /\ Len(source.lists) > 0
  /\ Len(heap[Last(source.lists)]) < MaxRequired
  /\ heap' = refAddRequiredPaths(heap, source, paths).heap
  /\ source' = refAddRequiredPaths(heap, source, paths).path
  /\ UNCHANGED <<derived, otherThanShare>>

\* derived = source.advance(edge)
DeriveByAdvance(edge) ==
  /\ ~source.isNull /\ derived.isNull
  /\ heap' = Append(heap, <<>>)
  /\ derived' = refAdvance(source, edge, Len(heap) + 1)
  /\ UNCHANGED <<source, otherThanShare>>

\* derived = source.clone()
DeriveByClone ==
  /\ ~source.isNull /\ derived.isNull
  /\ derived' = refClone(source)
  /\ UNCHANGED <<heap, source, otherThanShare>>

\* derived.addRequiredPaths(paths)
DerivedAddRequiredPaths(paths) ==
  /\ ~derived.isNull
  /\ Len(derived.lists) > 0
  /\ Len(heap[Last(derived.lists)]) < MaxRequired
  /\ heap' = refAddRequiredPaths(heap, derived, paths).heap
  /\ derived' = refAddRequiredPaths(heap, derived, paths).path
  /\ UNCHANGED <<source, otherThanShare>>

\* derived = derived.advance(edge)
DerivedAdvance(edge) ==
  /\ ~derived.isNull
  /\ Len(derived.edges) <= MaxPathEdges
  /\ heap' = Append(heap, <<>>)
  /\ derived' = refAdvance(derived, edge, Len(heap) + 1)
  /\ UNCHANGED <<source, otherThanShare>>

\* the tail of a path object
refTail(this) == IF Len(this.edges) > 0 THEN Last(this.edges).tail ELSE this.rootNode

ShareSupergraphs ==
  {<<RootSubgraph("A", a)>> : a \in RootVariants}
  \cup {<<RootSubgraph("A", "users-friend"), EntitySubgraph("B", b)>> : b \in EntityVariants}

InitShare ==
  /\ supergraph \in ShareSupergraphs
  /\ graph = parseSupergraph(supergraph)
  /\ pc = "idle"
  /\ operationType = "query"
  /\ steps = <<>>
  /\ stack = <<>>
  /\ nextPaths = <<>>
  /\ result = NullPath
  /\ opPath = NoPath
  /\ resolver = NoResolver
  /\ resolved = NoCall
  /\ plan = NoPlan
  /\ heap = <<>>
  /\ source = NoPath
  /\ derived = NoPath

NextShare ==
  \/ \E node \in Range(nodesOf(graph, "Query")) : SourceNew(node)
  \/ /\ ~source.isNull
     /\ \E edge \in Range(edgesOfHead(graph, refTail(source))) :
          SourceAdvance(edge) \/ DeriveByAdvance(edge)
  \/ /\ ~derived.isNull
     /\ \E edge \in Range(edgesOfHead(graph, refTail(derived))) : DerivedAdvance(edge)
  \/ \E node \in Range(nodesOf(graph, "Query")) :
       \/ SourceAddRequiredPaths(<<RequiredPath(node)>>)
       \/ DerivedAddRequiredPaths(<<RequiredPath(node)>>)
  \/ DeriveByClone

SpecShare == InitShare /\ [][NextShare]_vars

(***************************************************************************)
(* Properties of walkQuery and of OperationPath                            *)
(***************************************************************************)
\* walkQuery has returned a path
HasReturnedPath == pc = "returned" /\ ~result.isNull

\* the field names of the steps walkQuery has read
StepNames == [i \in 1..Len(steps) |-> steps[i].name]

IsFieldMove(edge) == edge.move.kind = "FieldMove"

IsEntityMove(edge) == edge.move.kind = "EntityMove"

\* the field names of the FieldMove edges of a sequence of edges, in order
RECURSIVE FieldMoveNames(_)
FieldMoveNames(edges) ==
  IF edges = <<>> THEN <<>>
  ELSE IF IsFieldMove(Head(edges))
    THEN <<Head(edges).move.fieldName>> \o FieldMoveNames(Tail(edges))
    ELSE FieldMoveNames(Tail(edges))

HasEntityMove(path) == \E i \in 1..Len(path.edges) : IsEntityMove(path.edges[i])

\* C1: every path walkQuery returns starts at a node of the root type of
\* the operation type, its FieldMove edges carry, in order, exactly the
\* field names of the steps, every other edge is an EntityMove, and its
\* last edge is the FieldMove of the last step.
C1_ReturnedPathRealizesSteps ==
  HasReturnedPath =>
    /\ result.path.rootNode.typeName = operationTypeToTypeName(operationType)
    /\ Includes(nodesOf(graph, operationTypeToTypeName(operationType)),
                result.path.rootNode)
    /\ FieldMoveNames(result.path.edges) = StepNames
    /\ \A i \in 1..Len(result.path.edges) :
         IsFieldMove(result.path.edges[i]) \/ IsEntityMove(result.path.edges[i])
    /\ Len(result.path.edges) > 0
    /\ IsFieldMove(Last(result.path.edges))
    /\ Last(result.path.edges).move.fieldName = Last(steps).name

\* a path is returned for three steps or more, with entity moves between
\* its field moves
C1_Witness ==
  /\ HasReturnedPath
  /\ Len(steps) >= 3
  /\ HasEntityMove(result.path)
  /\ Len(result.path.edges) > Len(steps)

\* the costs of the paths that realize the field names from `path` on:
\* field moves that match the names in order, and between them at most
\* MaxHops entity moves in a row whose requirements canSatisfyEdge finds
\* satisfiable
MaxHops == 2

RECURSIVE RealizingCosts(_, _, _)
RealizingCosts(path, names, hops) ==
  IF names = <<>> THEN {path.cost}
  ELSE UNION {
    IF IsFieldMove(edge)
      THEN IF edge.move.fieldName = Head(names)
             THEN RealizingCosts(advance(path, edge), Tail(names), 0)
             ELSE {}
      ELSE IF hops < MaxHops
                /\ canSatisfyEdge(graph, edge, path, NoExcluded).success
             THEN RealizingCosts(
                    addRequiredPaths(advance(path, edge),
                      canSatisfyEdge(graph, edge, path, NoExcluded).paths),
                    names, hops + 1)
             ELSE {}
    : edge \in Range(edgesOfHead(graph, tail(path)))}

AllRealizingCosts ==
  UNION {RealizingCosts(OperationPath(node, <<>>, <<>>, 0), StepNames, 0) :
           node \in Range(nodesOf(graph, operationTypeToTypeName(operationType)))}

\* C2: walkQuery returns null only when no path from a root node realizes
\* the steps, and a path it returns has the least cost of the realizing
\* paths.
C2_NullOnlyWithoutPathElseMinimal ==
  pc = "returned" =>
    IF result.isNull
      THEN AllRealizingCosts = {}
      ELSE \A cost \in AllRealizingCosts : result.path.cost <= cost

\* C3: when a pass of the loop reaches the step's field by no direct or
\* indirect expansion, walkQuery returns null and does not throw, whichever
\* step it is.
C3_UnreachableStepReturnsNull ==
  (pc \in {"returned", "threw"} /\ Len(steps) > 0 /\ nextPaths = <<>>) =>
    (pc = "returned" /\ result.isNull)

\* C4: the path returned after the last step is a candidate that survived
\* the last step, no candidate costs less, and every candidate found
\* before it costs more.
C4_BestPathIsFirstMinimum ==
  HasReturnedPath =>
    \E i \in 1..Len(nextPaths) :
      /\ nextPaths[i] = result.path
      /\ \A j \in 1..Len(nextPaths) : nextPaths[i].cost <= nextPaths[j].cost
      /\ \A j \in 1..(i - 1) : nextPaths[j].cost > nextPaths[i].cost

\* two different candidates share the lowest cost, and one is returned
C4_Witness ==
  /\ HasReturnedPath
  /\ \E i, j \in 1..Len(nextPaths) :
       /\ i < j
       /\ nextPaths[i] # nextPaths[j]
       /\ nextPaths[i].cost = nextPaths[j].cost
       /\ \A k \in 1..Len(nextPaths) : nextPaths[i].cost <= nextPaths[k].cost

\* the edges of a path form a chain from its root node
Chained(path) ==
  \A i \in 1..Len(path.edges) :
    path.edges[i].head = IF i = 1 THEN path.rootNode ELSE path.edges[i - 1].tail

SameLengths(path) == Len(path.edges) = Len(path.requiredPathsForEdges)

\* C5: in a path walkQuery returns each edge starts where the edge before
\* it ends, the first one at the root node, and there are as many lists of
\* required paths as edges; the lengths also agree in every path made from
\* a root-only path by advance, addRequiredPaths and clone.
C5_ChainedAndSameLengths ==
  /\ HasReturnedPath => Chained(result.path) /\ SameLengths(result.path)
  /\ opPath # NoPath => SameLengths(opPath)

\* a returned path with an entity move, and a path with edges that a
\* caller has cloned or given required paths
C5_WitnessReturned ==
  /\ HasReturnedPath
  /\ Len(result.path.edges) >= 3
  /\ HasEntityMove(result.path)

C5_WitnessBuilt ==
  /\ opPath # NoPath
  /\ Len(opPath.edges) = MaxPathEdges
  /\ Len(Last(opPath.requiredPathsForEdges)) > 0
  /\ opPath.cost = 0

\* the fields a selection set names, nested ones included: [typeName,
\* fieldName] pairs
RECURSIVE NamedFields(_)
NamedFields(selectionSet) ==
  UNION {{[typeName |-> selectionSet[i].typeName,
           fieldName |-> selectionSet[i].fieldName]}
         \cup (IF selectionSet[i].isLeaf THEN {}
               ELSE NamedFields(selectionSet[i].selectionSet))
         : i \in 1..Len(selectionSet)}

\* the last edge of the sub-path reads the field
Reads(subPath, field) ==
  /\ Len(subPath.edges) > 0
  /\ IsFieldMove(Last(subPath.edges))
  /\ Last(subPath.edges).move.fieldName = field.fieldName
  /\ Last(subPath.edges).head.typeName = field.typeName

RequirementIndexes(path) ==
  {i \in 1..Len(path.edges) : ~path.edges[i].requirement.isNull}

\* C6 as the specification states it: an edge with a requirement has an
\* attached sub-path that reads every field the requirement names.
C6_OneSubPathReadsEveryField ==
  HasReturnedPath =>
    \A i \in RequirementIndexes(result.path) :
      \E j \in 1..Len(result.path.requiredPathsForEdges[i]) :
        \A field \in NamedFields(result.path.edges[i].requirement.selectionSet) :
          Reads(result.path.requiredPathsForEdges[i][j], field)

\* C6: every field that the requirement of an edge of the returned path
\* names, nested fields included, is read by the last edge of a sub-path
\* attached to that edge.
C6_EveryFieldHasSubPath ==
  HasReturnedPath =>
    \A i \in RequirementIndexes(result.path) :
      \A field \in NamedFields(result.path.edges[i].requirement.selectionSet) :
        \E j \in 1..Len(result.path.requiredPathsForEdges[i]) :
          Reads(result.path.requiredPathsForEdges[i][j], field)

\* a returned path has an edge whose requirement names several fields
C6_Witness ==
  /\ HasReturnedPath
  /\ \E i \in RequirementIndexes(result.path) :
       Cardinality(NamedFields(result.path.edges[i].requirement.selectionSet)) > 1

\* C7 as the specification states it: no returned path holds an edge twice.
C7_NoEdgeTwice ==
  HasReturnedPath =>
    \A i, j \in 1..Len(result.path.edges) :
      i # j => result.path.edges[i] # result.path.edges[j]

\* C7: no returned path holds a FieldMove edge twice.
C7_NoFieldMoveTwice ==
  HasReturnedPath =>
    \A i, j \in 1..Len(result.path.edges) :
      (i # j /\ IsFieldMove(result.path.edges[i])) =>
        result.path.edges[i] # result.path.edges[j]

\* a returned path goes twice through the node of a type that has a field
\* of its own type
C7_Witness ==
  /\ HasReturnedPath
  /\ \E i, j \in 1..Len(result.path.edges) :
       /\ i < j
       /\ IsFieldMove(result.path.edges[i])
       /\ IsFieldMove(result.path.edges[j])
       /\ result.path.edges[i].head = result.path.edges[j].head
       /\ result.path.edges[i].head = result.path.edges[i].tail

\* no entity move of the path goes to the subgraph the edge before it left
HopSafe(path) ==
  \A i \in 2..Len(path.edges) :
    IsEntityMove(path.edges[i]) =>
      path.edges[i].tail.subgraphId # path.edges[i - 1].head.subgraphId

\* C8: in the returned path, and in every candidate path the loop keeps,
\* no EntityMove edge jumps to the subgraph that the edge before it left.
C8_HopSafety ==
  /\ HasReturnedPath => HopSafe(result.path)
  /\ \A i \in 1..Len(nextPaths) : HopSafe(nextPaths[i])

\* a returned path makes two entity moves in a row
C8_Witness ==
  /\ HasReturnedPath
  /\ \E i \in 2..Len(result.path.edges) :
       IsEntityMove(result.path.edges[i]) /\ IsEntityMove(result.path.edges[i - 1])

\* field moves alone realize the names from the node on
RECURSIVE FieldWalk(_, _)
FieldWalk(node, names) ==
  \/ names = <<>>
  \/ \E edge \in Range(edgesOfHead(graph, node)) :
       /\ IsFieldMove(edge)
       /\ edge.move.fieldName = Head(names)
       /\ edge.tail.subgraphId = node.subgraphId
       /\ FieldWalk(edge.tail, Tail(names))

\* C10: when field moves alone realize the whole step sequence inside one
\* subgraph from a root node, the returned path has no EntityMove edge.
C10_SingleSubgraphWins ==
  (/\ HasReturnedPath
   /\ \E node \in Range(nodesOf(graph, operationTypeToTypeName(operationType))) :
        FieldWalk(node, StepNames))
  => ~HasEntityMove(result.path)

\* the path as it was before its edge at index i was taken
Prefix(path, i) ==
  OperationPath(path.rootNode, SubSeq(path.edges, 1, i - 1),
                SubSeq(path.requiredPathsForEdges, 1, i - 1), 0)

\* the entity moves with the head and tail of the edge at index i whose
\* requirement names strictly fewer fields and can be satisfied there
SmallerKeyEdges(path, i) ==
  {edge \in Range(edgesOfHead(graph, path.edges[i].head)) :
     /\ IsEntityMove(edge)
     /\ edge.tail = path.edges[i].tail
     /\ NamedFields(edge.requirement.selectionSet)
          \subseteq NamedFields(path.edges[i].requirement.selectionSet)
     /\ NamedFields(edge.requirement.selectionSet)
          # NamedFields(path.edges[i].requirement.selectionSet)
     /\ canSatisfyEdge(graph, edge, Prefix(path, i),
                       Excluded(<<edge.tail.subgraphId>>, <<>>, <<edge>>)).success}

\* the entity moves with the head and tail of the edge at index i whose
\* requirement names strictly more fields and can be satisfied there
LargerKeyEdges(path, i) ==
  {edge \in Range(edgesOfHead(graph, path.edges[i].head)) :
     /\ IsEntityMove(edge)
     /\ edge.tail = path.edges[i].tail
     /\ NamedFields(path.edges[i].requirement.selectionSet)
          \subseteq NamedFields(edge.requirement.selectionSet)
     /\ NamedFields(edge.requirement.selectionSet)
          # NamedFields(path.edges[i].requirement.selectionSet)
     /\ canSatisfyEdge(graph, edge, Prefix(path, i),
                       Excluded(<<edge.tail.subgraphId>>, <<>>, <<edge>>)).success}

EntityIndexes(path) == {i \in 1..Len(path.edges) : IsEntityMove(path.edges[i])}

\* C11: when two satisfiable entity moves lead from a node to the same
\* subgraph and the requirement of one is a strict subset of the other's,
\* the returned path jumps through the one with the smaller requirement.
C11_SmallerKeyPreferred ==
  HasReturnedPath =>
    \A i \in EntityIndexes(result.path) : SmallerKeyEdges(result.path, i) = {}

\* a returned path jumps by a key although a satisfiable larger key leads
\* to the same subgraph
C11_Witness ==
  /\ HasReturnedPath
  /\ \E i \in EntityIndexes(result.path) : LargerKeyEdges(result.path, i) # {}

AllNodes == Flatten(graph.nodesByTypeIndex)

AllEdges == Flatten(graph.edgesByHeadTypeIndex)

EntityEdges == SelectSeq(AllEdges, IsEntityMove)

\* the nodes of the graph for a type in a subgraph
NodesFor(graphId, typeName) ==
  {node \in Range(AllNodes) :
     node.subgraphId = graphId /\ node.typeName = typeName}

\* the resolvable keys of a type in a subgraph
ResolvableKeys(subgraph, objectType) ==
  {objectType.join[j].key : j \in {k \in 1..Len(objectType.join) :
      objectType.join[k].hasKey /\ objectType.join[k].resolvable}}

\* the entity edges the graph is to hold: for a type with a resolvable key
\* in a subgraph, one from the type's node in every other subgraph
ExpectedEntityEdges ==
  UNION {UNION {UNION {
    {Edge(head, tailNode, EntityMove,
          resolve(supergraph[s], supergraph[s].types[t].name, key))
       : head \in {node \in Range(AllNodes) :
                     /\ node.typeName = supergraph[s].types[t].name
                     /\ node.subgraphId # supergraph[s].graphId},
         tailNode \in NodesFor(supergraph[s].graphId, supergraph[s].types[t].name)}
    : key \in ResolvableKeys(supergraph[s], supergraph[s].types[t])}
    : t \in 1..Len(supergraph[s].types)}
    : s \in 1..Len(supergraph)}

Count(seq, x) == Cardinality({i \in 1..Len(seq) : seq[i] = x})

\* every subgraph defines User with the one key "id"
AllUserById ==
  \A s \in 1..Len(supergraph) :
    \E t \in 1..Len(supergraph[s].types) :
      /\ supergraph[s].types[t].name = "User"
      /\ ResolvableKeys(supergraph[s], supergraph[s].types[t]) = {"id"}

\* C12: the merged graph holds exactly one entity edge for every resolvable
\* key of a type in a subgraph and every node of that type in another
\* subgraph, with the requirement the key's subgraph resolves the key to;
\* it holds no other entity edge, and none inside one subgraph.  Two
\* subgraphs that define User by key "id" give two User nodes and two
\* entity edges, one in each direction.
C12_EntityEdges ==
  /\ \A edge \in ExpectedEntityEdges : Count(EntityEdges, edge) = 1
  /\ Range(EntityEdges) \subseteq ExpectedEntityEdges
  /\ \A edge \in Range(EntityEdges) : edge.head.subgraphId # edge.tail.subgraphId
  /\ (Len(supergraph) = 2 /\ AllUserById) =>
       /\ Cardinality({node \in Range(AllNodes) : node.typeName = "User"}) = 2
       /\ Len(EntityEdges) = 2
       /\ \E a, b \in Range(EntityEdges) :
            a.head = b.tail /\ a.tail = b.head /\ a # b

\* a graph of three subgraphs in which a type has two keys in one subgraph
\* and a key that is not resolvable in another
C12_Witness ==
  /\ Len(supergraph) = 3
  /\ Len(EntityEdges) = 3
  /\ \E s \in 1..Len(supergraph) : \E t \in 1..Len(supergraph[s].types) :
       \E j \in 1..Len(supergraph[s].types[t].join) :
         /\ supergraph[s].types[t].join[j].hasKey
         /\ ~supergraph[s].types[t].join[j].resolvable
  /\ \E s \in 1..Len(supergraph) : \E t \in 1..Len(supergraph[s].types) :
       Cardinality(ResolvableKeys(supergraph[s], supergraph[s].types[t])) = 2

\* the FieldMove edges of the graph for a field of a type in a subgraph
FieldEdges(graphId, typeName, fieldName) ==
  {i \in 1..Len(AllEdges) :
     /\ IsFieldMove(AllEdges[i])
     /\ AllEdges[i].head.subgraphId = graphId
     /\ AllEdges[i].move.typeName = typeName
     /\ AllEdges[i].move.fieldName = fieldName}

\* the one edge of a field: from the node of its type to the node of the
\* field's type, both of the field's subgraph
IsEdgeOfField(edge, graphId, objectType, field) ==
  /\ edge.head \in NodesFor(graphId, objectType.name)
  /\ edge.tail \in NodesFor(graphId, field.type)
  /\ edge.move = FieldMove(field.name, objectType.name, OBJECT_TYPE, field.isList)
  /\ edge.requirement = NullSelection

\* C13: a field declared external in a subgraph has no FieldMove edge
\* there, and every other field of a type that has a node in the subgraph
\* has exactly one, from the node of the type to the node of the field's
\* type in that subgraph.
C13_FieldEdges ==
  \A s \in 1..Len(supergraph) : \A t \in 1..Len(supergraph[s].types) :
    LET graphId == supergraph[s].graphId
        objectType == supergraph[s].types[t]
    IN \A f \in 1..Len(objectType.fields) :
         LET field == objectType.fields[f]
             edges == FieldEdges(graphId, objectType.name, field.name)
         IN IF field.join.external
              THEN edges = {}
              ELSE NodesFor(graphId, objectType.name) # {} =>
                     /\ Cardinality(edges) = 1
                     /\ \A i \in edges :
                          IsEdgeOfField(AllEdges[i], graphId, objectType, field)

\* a subgraph whose User node has an edge for one field and none for its
\* external field
C13_Witness ==
  \E s \in 1..Len(supergraph) : \E t \in 1..Len(supergraph[s].types) :
    LET graphId == supergraph[s].graphId
        objectType == supergraph[s].types[t]
    IN /\ NodesFor(graphId, objectType.name) # {}
       /\ \E f, g \in 1..Len(objectType.fields) :
            /\ objectType.fields[f].join.external
            /\ ~objectType.fields[g].join.external
            /\ FieldEdges(graphId, objectType.name, objectType.fields[g].name) # {}

\* the cached selections of a type
CachedKeys(typeName) ==
  {key \in DOMAIN resolver.cache : key[1] = typeName}

\* one sequence of selections is the other with its selections permuted,
\* the selections of each field permuted in turn
RECURSIVE Permuted(_, _)
Permuted(selections, others) ==
  /\ Len(selections) = Len(others)
  /\ \E p \in [1..Len(selections) -> 1..Len(selections)] :
       /\ \A i, j \in 1..Len(selections) : i # j => p[i] # p[j]
       /\ \A i \in 1..Len(selections) :
            /\ selections[i].kind = others[p[i]].kind
            /\ selections[i].name = others[p[i]].name
            /\ selections[i].hasSelectionSet = others[p[i]].hasSelectionSet
            /\ Permuted(selections[i].selections, others[p[i]].selections)

\* C14: two key strings of a type that are each other's fields permuted,
\* at any level, resolve to selections that are equal under
\* Selection.equals and have the same sorted selection set.
C14_PermutedKeysResolveEqual ==
  ~resolver.isNull =>
    \A key, other \in DOMAIN resolver.cache :
      (key[1] = other[1] /\ Permuted(parseFields(key[2]), parseFields(other[2]))) =>
        /\ SelectionEquals(resolver.cache[key], resolver.cache[other])
        /\ resolver.cache[key].selectionSet = resolver.cache[other].selectionSet

\* an inline fragment or a fragment spread among the selections, at any depth
RECURSIVE HasFragment(_)
HasFragment(selections) ==
  \E i \in 1..Len(selections) :
    \/ selections[i].kind # "Field"
    \/ HasFragment(selections[i].selections)

\* C15: a call of resolve with a key string that holds an inline fragment
\* or a fragment spread at any depth throws, does not enter its key into
\* the cache and leaves the cache as it was.
C15_FragmentFailsAndIsNotCached ==
  [][(~resolved'.isNull /\ HasFragment(parseFields(resolved'.keyFields))) =>
       /\ resolved'.threw
       /\ keyFactory(resolved'.typeName, resolved'.keyFields)
            \notin DOMAIN resolver'.cache
       /\ resolver'.cache = resolver.cache]_vars

\* resolve has thrown on a fragment under a field the subgraph defines,
\* with selections in the cache
C15_Witness ==
  /\ ~resolver.isNull
  /\ ~resolved.isNull
  /\ resolved.threw
  /\ resolved.typeName = "User"
  /\ resolved.keyFields = "boss{...on User{id}}"
  /\ ~selectionThrows(resolver.subgraph, "User", FieldNodeWith("boss", <<FieldNode("id")>>))
  /\ DOMAIN resolver.cache # {}

\* generateQueryPlan has returned a plan for the returned path
HasPlan == ~plan.isNull /\ ~plan.threw

\* the nodes the plan holds, in order
NodesOfPlan ==
  IF plan.node.kind = "Sequence" THEN plan.node.nodes ELSE <<plan.node>>

\* the places of the EntityMove edges on a path, in order
RECURSIVE EntityPlaces(_, _)
EntityPlaces(edges, i) ==
  IF i > Len(edges) THEN <<>>
  ELSE (IF IsEntityMove(edges[i]) THEN <<i>> ELSE <<>>) \o EntityPlaces(edges, i + 1)

MainEntityPlaces == EntityPlaces(result.path.edges, 1)

\* the first service segment: the edges up to the first that leaves from
\* another subgraph than the first edge does
FirstSegment(edges) ==
  LET others == {i \in 1..Len(edges) : edges[i].head.subgraphId # edges[1].head.subgraphId}
  IN IF others = {} THEN edges
     ELSE SubSeq(edges, 1, (CHOOSE i \in others : \A j \in others : i <= j) - 1)

\* C16: a plan has one Fetch, from the subgraph of the first service
\* segment, and after it one Flatten for every EntityMove edge of the main
\* path, in the order of the edges; the root of the plan is the Fetch when
\* there is nothing else, and a Sequence of the nodes otherwise.
C16_OneFetchThenFlattens ==
  HasPlan =>
    /\ Len(NodesOfPlan) = 1 + Len(MainEntityPlaces)
    /\ NodesOfPlan[1].kind = "Fetch"
    /\ NodesOfPlan[1].serviceName = result.path.rootNode.subgraphId
    /\ \A k \in 1..Len(MainEntityPlaces) :
         /\ NodesOfPlan[1 + k].kind = "Flatten"
         /\ NodesOfPlan[1 + k].node.serviceName =
              result.path.edges[MainEntityPlaces[k]].tail.subgraphId
         /\ NodesOfPlan[1 + k].node.requires.selectionSet =
              result.path.edges[MainEntityPlaces[k]].requirement.selectionSet
    /\ IF Len(MainEntityPlaces) = 0
         THEN plan.node.kind = "Fetch"
         ELSE plan.node.kind = "Sequence"

\* a plan of a Fetch and two Flattens
C16_Witness ==
  /\ HasPlan
  /\ Len(MainEntityPlaces) = 2
  /\ plan.node.kind = "Sequence"

\* the names of the FieldMove edges before edge i, "@" after each that
\* returns a list
PathBefore(edges, i) ==
  Flatten([j \in 1..(i - 1) |->
             IF IsFieldMove(edges[j])
               THEN IF edges[j].move.isList
                      THEN <<edges[j].move.fieldName, "@">>
                      ELSE <<edges[j].move.fieldName>>
               ELSE <<>>])

Opens == {"{\n", " {\n"}

Closes == {"}\n", "}"}

\* the pieces of an operation that select something
SelectingPlaces(operation) ==
  {k \in 1..Len(operation) : operation[k].text \notin Opens \cup Closes \cup {"\n", "{}"}}

\* how deep in selection sets piece k of an operation is
DepthAt(operation, k) ==
  Cardinality({j \in 1..(k - 1) : operation[j].text \in Opens})
    - Cardinality({j \in 1..(k - 1) : operation[j].text \in Closes})

\* what an operation selects, in order, each with its depth
RECURSIVE SelectedFrom(_, _)
SelectedFrom(operation, k) ==
  IF k > Len(operation) THEN <<>>
  ELSE (IF k \in SelectingPlaces(operation)
          THEN <<[name |-> operation[k].text, depth |-> DepthAt(operation, k)]>>
          ELSE <<>>)
         \o SelectedFrom(operation, k + 1)

\* the fields of a selection set, the nested ones included, each with its depth
RECURSIVE FieldsOfSelectionSet(_, _)
FieldsOfSelectionSet(selectionSet, depth) ==
  Flatten([i \in 1..Len(selectionSet) |->
             <<[name |-> selectionSet[i].fieldName, depth |-> depth]>>
               \o (IF selectionSet[i].isLeaf THEN <<>>
                   ELSE FieldsOfSelectionSet(selectionSet[i].selectionSet, depth + 1))])

\* the chain of the fields of a segment from its edge i on: every field
\* under the one before it, __typename under a field of a composite type,
\* and the fields of the requirement of the entity move that ends it
RECURSIVE ChainFrom(_, _, _)
ChainFrom(segment, i, depth) ==
  IF i > Len(segment) THEN <<>>
  ELSE IF IsEntityMove(segment[i])
    THEN FieldsOfSelectionSet(segment[i].requirement.selectionSet, depth)
           \o ChainFrom(segment, i + 1, depth)
  ELSE <<[name |-> segment[i].move.fieldName, depth |-> depth]>>
         \o (IF segment[i].tail.typeKind \in CompositeTypeKinds
               THEN <<[name |-> "__typename\n", depth |-> depth + 1]>>
               ELSE <<>>)
         \o ChainFrom(segment, i + 1, depth + 1)

\* C18: the operation of the root Fetch selects the chain of the fields of
\* the first service segment, each under the one before it, with
\* __typename under every field of an object, interface or union type,
\* and, when the segment ends with an entity move, every field of the
\* move's requirement, the nested ones included, at the end of the branch.
C18_RootFetchSelectsChain ==
  HasPlan =>
    LET operation == NodesOfPlan[1].operation
    IN /\ SelectedFrom(operation, 1) = ChainFrom(FirstSegment(result.path.edges), 1, 1)
       /\ DepthAt(operation, Len(operation) + 1) = 0

\* a plan whose first segment ends with an entity move that requires a
\* field with a selection set of its own
C18_Witness ==
  /\ HasPlan
  /\ LET segment == FirstSegment(result.path.edges)
     IN /\ IsEntityMove(Last(segment))
        /\ \E k \in 1..Len(Last(segment).requirement.selectionSet) :
             ~Last(segment).requirement.selectionSet[k].isLeaf

\* C19: generateQueryPlan throws exactly when an EntityMove edge of the
\* main path is not followed at once by a FieldMove edge.
C19_ThrowsWithoutTargetField ==
  ~plan.isNull =>
    (plan.threw <=>
       \E i \in 1..Len(result.path.edges) :
         /\ IsEntityMove(result.path.edges[i])
         /\ ~(i < Len(result.path.edges) /\ IsFieldMove(result.path.edges[i + 1])))

\* generateQueryPlan has thrown on a returned path
C19_Witness ==
  /\ ~plan.isNull
  /\ plan.threw
  /\ HasReturnedPath

\* C20: no call of walkQuery and no call of generateQueryPlan, however
\* many are made on a graph, changes the graph.
C20_GraphUnchanged == [][graph' = graph]_vars

\* a plan made of a path walkQuery returned, with requires taken from the
\* graph's entity edges, and the graph as parseSupergraph built it
C20_Witness ==
  /\ HasPlan
  /\ Len(MainEntityPlaces) > 0
  /\ graph = parseSupergraph(supergraph)

\* C21: once advance or clone has returned a path, no call of advance or
\* addRequiredPaths on that path changes the edges, the required paths
\* (the contents of the inner lists included) or the cost of the source.
C21_SourceUnchanged ==
  [][(~derived.isNull /\ ~derived'.isNull) =>
       deref(heap', source') = deref(heap, source)]_vars

\* the base cost of the edges of a path: 1 for a FieldMove, 10 for another move
RECURSIVE BaseCost(_)
BaseCost(edges) ==
  IF edges = <<>> THEN 0
  ELSE (IF IsFieldMove(Head(edges)) THEN 1 ELSE 10) + BaseCost(Tail(edges))

\* the requirement sub-paths attached to the edges of a path
AttachedPaths(path) == Flatten(path.requiredPathsForEdges)

\* the cost of a path is the base cost of its edges and the cost of the
\* sub-paths attached to them
CostIsSum(path) == path.cost = BaseCost(path.edges) + SumCost(AttachedPaths(path))

\* CostIsSum of a path and of every sub-path attached to it, at any depth
RECURSIVE CostIsSumThroughout(_)
CostIsSumThroughout(path) ==
  /\ CostIsSum(path)
  /\ \A i \in 1..Len(AttachedPaths(path)) : CostIsSumThroughout(AttachedPaths(path)[i])

\* the paths walkQuery holds: those on its stack, nextPaths and the one returned
WalkerPaths ==
  Range(nextPaths)
    \cup UNION {Range(stack[i].paths) : i \in 1..Len(stack)}
    \cup (IF HasReturnedPath THEN {result.path} ELSE {})

\* C22: the cost of every path the walker builds, main path or attached
\* requirement sub-path, is the sum of the base costs of its edges and of
\* the costs of the sub-paths attached to its edges.
C22_CostIsSum == \A path \in WalkerPaths : CostIsSumThroughout(path)

RootTypeNames == {"Query", "Mutation", "Subscription"}

\* the subgraphs of the supergraph that define a type
SubgraphsDefining(typeName) ==
  {s \in 1..Len(supergraph) : HasTypeState(supergraph[s], typeName)}

\* C23: every root type a subgraph defines, Query, Mutation or
\* Subscription, has a node with its field edges in the merged graph, and a
\* call of walkQuery starts with one root path for every subgraph that
\* defines the root type of the operation.
C23_RootTypesHaveNodes ==
  /\ \A typeName \in RootTypeNames : \A s \in SubgraphsDefining(typeName) :
       /\ Cardinality(NodesFor(supergraph[s].graphId, typeName)) = 1
       /\ \A f \in 1..Len(TypeState(supergraph[s], typeName).fields) :
            FieldEdges(supergraph[s].graphId, typeName,
                       TypeState(supergraph[s], typeName).fields[f].name) # {}
  /\ (pc = "loop" /\ Len(steps) = 1 /\ Len(stack) = 1) =>
       /\ Len(stack[1].paths) =
            Cardinality(SubgraphsDefining(operationTypeToTypeName(operationType)))
       /\ \A s \in SubgraphsDefining(operationTypeToTypeName(operationType)) :
            \E i \in 1..Len(stack[1].paths) :
              /\ stack[1].paths[i].rootNode.subgraphId = supergraph[s].graphId
              /\ stack[1].paths[i].rootNode.typeName =
                   operationTypeToTypeName(operationType)
              /\ stack[1].paths[i].edges = <<>>

\* the path has an edge with a requirement sub-path that makes an entity move
RequirementJumps(path) ==
  \E i \in 1..Len(path.requiredPathsForEdges) :
    \E j \in 1..Len(path.requiredPathsForEdges[i]) :
      HasEntityMove(path.requiredPathsForEdges[i][j])

\* the graph has entity edges both ways between two subgraphs
EntityCycle ==
  \E i, j \in 1..Len(EntityEdges) :
    /\ EntityEdges[i].head.subgraphId = EntityEdges[j].tail.subgraphId
    /\ EntityEdges[i].tail.subgraphId = EntityEdges[j].head.subgraphId

\* C24: a call of walkQuery ends: a call that has entered its loop returns
\* or throws, on every graph of the model, those with entity-edge cycles
\* and with requirements that need entity jumps included.  Every pass of
\* the loop evaluates findDirectPaths, findIndirectPaths, canSatisfyEdge and
\* validateFieldRequirement to the end: the pass has a next state only if
\* every queue has emptied and the mutual recursion has bottomed out.
C24_WalkQueryTerminates == (pc = "loop") ~> (pc \in {"returned", "threw"})

\* a call has returned a path on a graph with an entity-edge cycle, and a
\* requirement of the path was resolved through an entity jump
C24_Witness ==
  /\ HasReturnedPath
  /\ EntityCycle
  /\ RequirementJumps(result.path)

\* the successful paths a search of walkQuery for `name` finds from `path`,
\* in the order of their discovery
IndirectFound(path, name) ==
  indirectQueue(graph, name, tail(path).subgraphId,
                [queue |-> <<[visitedGraphs |-> <<>>, visitedKeyFields |-> <<>>,
                              path |-> path]>>,
                 nextPaths |-> <<>>])

\* found[k] is the first of the cheapest paths of `found` that end in its
\* subgraph
FirstCheapest(found, k) ==
  \A m \in 1..Len(found) :
    tail(found[m]).subgraphId = tail(found[k]).subgraphId =>
      /\ found[m].cost >= found[k].cost
      /\ m < k => found[m].cost > found[k].cost

\* `returned` holds, for every subgraph a path of `found` ends in, one
\* path: the first of the cheapest of them
BestPerSubgraph(found, returned) ==
  /\ \A i, j \in 1..Len(returned) :
       i # j => tail(returned[i]).subgraphId # tail(returned[j]).subgraphId
  /\ \A i \in 1..Len(returned) :
       \E k \in 1..Len(found) : found[k] = returned[i] /\ FirstCheapest(found, k)
  /\ \A k \in 1..Len(found) :
       \E i \in 1..Len(returned) :
         tail(returned[i]).subgraphId = tail(found[k]).subgraphId

\* C25: an indirect search returns at most one path for a subgraph, the
\* first discovered of the cheapest successful paths the search found
\* ending in that subgraph.
C25_BestPathPerSubgraph ==
  (pc = "loop" /\ Len(stack) > 0) =>
    \A i \in 1..Len(Last(stack).paths) :
      BestPerSubgraph(IndirectFound(Last(stack).paths[i], Last(stack).step.name),
                      findIndirectPaths(graph, Last(stack).paths[i],
                                        Last(stack).step.name, NoExcluded))

\* two different paths of `found` end in the same subgraph at the same cost
TiedPaths(found) ==
  \E k, m \in 1..Len(found) :
    /\ k < m
    /\ found[k] # found[m]
    /\ tail(found[k]).subgraphId = tail(found[m]).subgraphId
    /\ found[k].cost = found[m].cost

\* a search of the pass to come finds two paths into one subgraph at the
\* same cost
C25_Witness ==
  /\ pc = "loop"
  /\ Len(stack) > 0
  /\ \E i \in 1..Len(Last(stack).paths) :
       TiedPaths(IndirectFound(Last(stack).paths[i], Last(stack).step.name))

\* the subgraphs the entity moves right before edge i of the path lead to:
\* the visitedGraphs of the search that looks at edge i
RECURSIVE RunBefore(_, _)
RunBefore(path, i) ==
  IF i <= 1 \/ ~IsEntityMove(path.edges[i - 1]) THEN {}
  ELSE {path.edges[i - 1].tail.subgraphId} \cup RunBefore(path, i - 1)

\* the edges a resolver sub-path of edge i adds to the path before that
\* edge are not `edge`, and none is an entity move into a subgraph of `banned`
KeepsOut(subPath, i, edge, banned) ==
  \A k \in i..Len(subPath.edges) :
    /\ subPath.edges[k] # edge
    /\ IsEntityMove(subPath.edges[k]) =>
         subPath.edges[k].tail.subgraphId \notin banned

\* KeepsOut of the resolver sub-paths of every entity edge of the path from
\* edge `from` on, and of theirs, at any depth; `outer` are the subgraphs
\* the searches around the path keep off
RECURSIVE ResolversKeepOut(_, _, _)
ResolversKeepOut(path, from, outer) ==
  \A i \in EntityIndexes(path) :
    i >= from =>
      \A j \in 1..Len(path.requiredPathsForEdges[i]) :
        /\ KeepsOut(path.requiredPathsForEdges[i][j], i, path.edges[i],
                    outer \cup RunBefore(path, i)
                          \cup {path.edges[i].tail.subgraphId})
        /\ ResolversKeepOut(path.requiredPathsForEdges[i][j], i,
                            outer \cup RunBefore(path, i)
                                  \cup {path.edges[i].tail.subgraphId})

\* C26: a sub-path that resolves the requirement of an entity edge e adds
\* to the path before e neither e, nor an entity move into the subgraph e
\* leads to, nor one into a subgraph the search that looks at e has visited
\* or was told to keep off; so it is at every depth of the resolution.
C26_ResolversKeepOut == \A path \in WalkerPaths : ResolversKeepOut(path, 1, {})

\* a returned path has an entity edge with a resolver sub-path that makes
\* an entity move of its own, which has a resolver sub-path in turn
C26_Witness ==
  /\ HasReturnedPath
  /\ \E i \in EntityIndexes(result.path) :
       \E j \in 1..Len(result.path.requiredPathsForEdges[i]) :
         \E k \in i..Len(result.path.requiredPathsForEdges[i][j].edges) :
           /\ IsEntityMove(result.path.requiredPathsForEdges[i][j].edges[k])
           /\ result.path.requiredPathsForEdges[i][j].requiredPathsForEdges[k] # <<>>

\* the paths that lead from the paths to the field, direct ones and those
\* through entity moves
Survivors(paths, fieldName, excluded) ==
  Flatten([i \in 1..Len(paths) |->
             findDirectPaths(graph, paths[i], fieldName, excluded)])
  \o Flatten([i \in 1..Len(paths) |->
                findIndirectPaths(graph, paths[i], fieldName, excluded)])

\* every field of the selection set has a path from the paths, and every
\* field below it has one from the survivors of the field
RECURSIVE FieldsHavePaths(_, _, _)
FieldsHavePaths(selectionSet, paths, excluded) ==
  \A f \in 1..Len(selectionSet) :
    /\ Survivors(paths, selectionSet[f].fieldName, excluded) # <<>>
    /\ ~selectionSet[f].isLeaf =>
         FieldsHavePaths(selectionSet[f].selectionSet,
                         Survivors(paths, selectionSet[f].fieldName, excluded),
                         excluded)

\* what the search of a pass hands to canSatisfyEdge for an edge that
\* leaves the tail of a path on the stack
FirstExcluded(edge) == Excluded(<<edge.tail.subgraphId>>, <<>>, <<edge>>)

\* the path is `path` advanced by the edge, and maybe by more edges
Takes(found, path, edge) ==
  /\ Len(found.edges) > Len(path.edges)
  /\ SubSeq(found.edges, 1, Len(path.edges) + 1) = Append(path.edges, edge)

\* canSatisfyEdge for the edge from the path: its result is as the
\* requirement of the edge demands, and a pass takes the edge only when it
\* succeeds
SatisfiedAsRequired(path, edge, found) ==
  /\ edge.requirement.isNull =>
       canSatisfyEdge(graph, edge, path, FirstExcluded(edge)) =
         [success |-> TRUE, paths |-> <<>>]
  /\ ~edge.requirement.isNull =>
       (canSatisfyEdge(graph, edge, path, FirstExcluded(edge)).success
          <=> FieldsHavePaths(edge.requirement.selectionSet, <<clone(path)>>,
                              FirstExcluded(edge)))
  /\ ~canSatisfyEdge(graph, edge, path, FirstExcluded(edge)).success =>
       /\ canSatisfyEdge(graph, edge, path, FirstExcluded(edge)).paths = <<>>
       /\ \A k \in 1..Len(found) : ~Takes(found[k], path, edge)

\* C27: canSatisfyEdge succeeds with no paths for an edge without
\* requirement; for an edge with a requirement it succeeds exactly when
\* every field of the requirement has a direct or an indirect path, the
\* nested fields from the survivors of their parent; when it fails it
\* returns no paths and the edge is not taken.
C27_SatisfiedAsRequired ==
  (pc = "loop" /\ Len(stack) > 0) =>
    \A i \in 1..Len(Last(stack).paths) :
      \A e \in 1..Len(edgesOfHead(graph, tail(Last(stack).paths[i]))) :
        SatisfiedAsRequired(Last(stack).paths[i],
                            edgesOfHead(graph, tail(Last(stack).paths[i]))[e],
                            expandPaths(graph, Last(stack).paths, Last(stack).step.name))

\* the edge has a requirement with a nested field
HasNestedRequirement(edge) ==
  /\ ~edge.requirement.isNull
  /\ \E f \in 1..Len(edge.requirement.selectionSet) :
       ~edge.requirement.selectionSet[f].isLeaf

\* from the tail of a path on the stack one entity edge with a nested
\* requirement can be satisfied, and another entity edge cannot
C27_Witness ==
  /\ pc = "loop"
  /\ Len(stack) > 0
  /\ \E i \in 1..Len(Last(stack).paths) :
       \E e, f \in 1..Len(edgesOfHead(graph, tail(Last(stack).paths[i]))) :
         /\ HasNestedRequirement(edgesOfHead(graph, tail(Last(stack).paths[i]))[e])
         /\ canSatisfyEdge(graph, edgesOfHead(graph, tail(Last(stack).paths[i]))[e],
                           Last(stack).paths[i],
                           FirstExcluded(edgesOfHead(graph, tail(Last(stack).paths[i]))[e])).success
         /\ ~canSatisfyEdge(graph, edgesOfHead(graph, tail(Last(stack).paths[i]))[f],
                            Last(stack).paths[i],
                            FirstExcluded(edgesOfHead(graph, tail(Last(stack).paths[i]))[f])).success

\* C28: on every path walkQuery returns each EntityMove edge is followed
\* at once by a FieldMove edge, also where the field is reached through two
\* entity moves or more, and generateQueryPlan does not throw for want of
\* a target field on such a path.
C28_PlannablePath ==
  /\ HasReturnedPath =>
       \A i \in EntityIndexes(result.path) :
         /\ i < Len(result.path.edges)
         /\ IsFieldMove(result.path.edges[i + 1])
  /\ ~plan.isNull => ~plan.threw

\* the node of a plan is a Fetch, or the Flatten of a Fetch, that is sent
\* to the subgraph the edge is in and selects the field of the edge
SelectsField(node, edge) ==
  IF node.kind = "Fetch"
    THEN /\ node.serviceName = edge.head.subgraphId
         /\ \E k \in SelectingPlaces(node.operation) :
              node.operation[k].text = edge.move.fieldName
    ELSE /\ node.node.serviceName = edge.head.subgraphId
         /\ node.node.operation.typeName = edge.head.typeName
         /\ node.node.operation.fieldName = edge.move.fieldName

\* C29: the plan made of a path covers the path: the field of every
\* FieldMove edge of the path is selected by the operation of a Fetch of the
\* plan, the fields that follow the target field of an entity move too.
C29_PlanCoversPath ==
  HasPlan =>
    \A i \in 1..Len(result.path.edges) :
      IsFieldMove(result.path.edges[i]) =>
        \E n \in 1..Len(NodesOfPlan) : SelectsField(NodesOfPlan[n], result.path.edges[i])

\* the type a root operation selects at a depth: the root type at the
\* top, and below it User, the type of every composite field of the model's
\* supergraphs
TypeAtDepth(depth) ==
  IF depth = 1 THEN operationTypeToTypeName(operationType) ELSE "User"

\* the subgraph the Fetch is sent to has a FieldMove edge for every field
\* the operation of the Fetch selects, __typename aside
FetchesOwnFields(node) ==
  IF node.kind = "Fetch"
    THEN \A k \in SelectingPlaces(node.operation) :
           node.operation[k].text # "__typename\n" =>
             FieldEdges(node.serviceName,
                        TypeAtDepth(DepthAt(node.operation, k)),
                        node.operation[k].text) # {}
    ELSE FieldEdges(node.node.serviceName, node.node.operation.typeName,
                    node.node.operation.fieldName) # {}

\* C30: every field the operation of a Fetch selects, the key fields added
\* for the entity move that follows included, is a field the subgraph of
\* the Fetch resolves itself; a requirement field the walker resolved
\* through another subgraph is not in the Fetch.
C30_FetchesOwnFields ==
  HasPlan => \A n \in 1..Len(NodesOfPlan) : FetchesOwnFields(NodesOfPlan[n])

====
